---- MODULE Spec2Model ----
(***************************************************************************)
(* Model of the SQL parser's lexer (pkg/sql/parser/lexer.go): the cursor   *)
(* over the scanner's token array and the lookahead rules of Lex, which    *)
(* retag a token's id from the ids (and texts) of its neighbours.          *)
(*                                                                         *)
(* A token is a record [id, pos, str] (sqlSymType's id, pos and str).      *)
(* Positions into the token array are 0-based as in the Go code; the TLA+  *)
(* sequence `tokens` is 1-based, so the token at Go index i is tokens[i+1].*)
(***************************************************************************)
EXTENDS Integers, Sequences, FiniteSets, TLC

VARIABLES
    in,               \* lexer.in: the source text
    tokens,           \* lexer.tokens: the scanner's token array
    lastPos,          \* lexer.lastPos: index of the last token returned by Lex
    stmt,             \* lexer.stmt
    numPlaceholders,  \* lexer.numPlaceholders
    numAnnotations,   \* lexer.numAnnotations
    lastError,        \* lexer.lastError
    lval,             \* the *sqlSymType that the last Lex call filled in
    out,              \* every token Lex has handed to the parser, in call order
    recorded,         \* the placeholder indices recorded since init
    annCalls,         \* number of NewAnnotation calls since init
    annRet,           \* what the last NewAnnotation call returned, or 0
    errCall,          \* the operation that set the pending error, or ""
    errArg,           \* the texts that operation was called with
    errPos,           \* the cursor position it was called at
    overwrote         \* that operation found an error pending

\* the fields of the lexer and the parser's token buffer
lexerVars == <<in, tokens, lastPos, stmt, numPlaceholders, numAnnotations,
               lastError, lval, out>>

\* the record of the calls made
callVars == <<recorded, annCalls, annRet, errCall, errArg, errPos, overwrote>>

vars == <<lexerVars, callVars>>

---------------------------------------------------------------------------
(* Bounds of the model. *)

\* longest token array of the exhaustively enumerated inputs
MaxTokens == 4
\* tokens after the INDEX token in the INDEX windows
MaxAhead == 3
\* tokens after the INDEX token in the '@' scan inputs
MaxScan == 7
\* Lex calls made after the end of the array has been passed
MaxEOFCalls == 2
\* longest token array of the inputs to the one-token lookahead rules
MaxShort == 2
\* NewAnnotation calls made in one parse
MaxAnnotations == 2
\* SetHelp calls made on one diagnostic
MaxHelpCalls == 1
\* largest placeholder index the parser records
MaxPlaceholderIdx == 2
\* longest source text of the inputs to the detail block
MaxSource == 7
\* longest token array of the inputs with missing neighbours
MaxEdge == 3

---------------------------------------------------------------------------
(* Token ids.  Punctuation tokens carry their character code (below 256); *)
(* keyword and identifier ids are the parser generator's constants, all   *)
(* above 255; the values chosen here are distinct stand-ins for them.     *)

LPAREN == 40
RPAREN == 41
COMMA == 44
DOT == 46
EQUALS == 61
ATSIGN == 64

IDENT == 57346
SCONST == 57347
ERROR == 57348
HELPTOKEN == 57349
NOTHING == 57350
RETURNING == 57351
NOTHING_AFTER_RETURNING == 57352
INDEX == 57353
OPTIONS == 57354
INVERTED == 57355
VECTOR == 57356
INDEX_BEFORE_PAREN == 57357
INDEX_BEFORE_NAME_THEN_PAREN == 57358
BY_KW == 57359
ORDER == 57360
INDEX_AFTER_ORDER_BY_BEFORE_AT == 57361
NOT == 57362
WITH_KW == 57363
AS == 57364
GENERATED == 57365
NULLS == 57366
RESET == 57367
ROLE == 57368
USER == 57369
ON == 57370
TENANT == 57371
CLUSTER == 57372
SET == 57373
OF == 57374
SYSTEM == 57375
AS_LA == 57376
BETWEEN == 57377
IN_KW == 57378
LIKE == 57379
ILIKE == 57380
SIMILAR == 57381
NOT_LA == 57382
ALWAYS == 57383
GENERATED_ALWAYS == 57384
GENERATED_BY_DEFAULT == 57385
TIME == 57386
ORDINALITY == 57387
BUCKET_COUNT == 57388
WITH_LA == 57389
FIRST == 57390
LAST == 57391
NULLS_LA == 57392
ALL == 57393
RESET_ALL == 57394
ROLE_ALL == 57395
USER_ALL == 57396
DELETE == 57397
UPDATE == 57398
NO == 57399
RESTRICT == 57400
CASCADE == 57401
ON_LA == 57402
TENANT_ALL == 57403
CLUSTER_ALL == 57404
TRACING == 57405
SESSION == 57406
SET_TRACING == 57407
CREATE == 57408
TABLE == 57409
INT == 57410

---------------------------------------------------------------------------
(* Tokens and the window around a position. *)

\* How far behind the current token Lex reads: prevID and pprevID.
LookBehind == 2

\* sqlSymType{}: the zero value a neighbour variable keeps when the
\* neighbour does not exist.
ZeroToken == [id |-> 0, pos |-> 0, str |-> ""]

\* Variant: an index outside the array is taken around its ends.
TokAtWraps(toks, i) ==
    IF Len(toks) = 0 THEN ZeroToken ELSE toks[(i % Len(toks)) + 1]

\* The token at 0-based index i, or the zero value when i is out of range
\* (the `if l.lastPos+k < len(l.tokens)` / `if l.lastPos > k` guards).
TokAt(toks, i) ==
    IF 0 <= i /\ i < Len(toks) THEN toks[i + 1] ELSE ZeroToken

\* The synthetic end-of-input token.
EOFToken(src) == [id |-> 0, pos |-> Len(src), str |-> "EOF"]

\* Variant: the returned token is built anew from the id alone.
RetagFresh(tok, id) == [id |-> id, pos |-> 0, str |-> ""]

\* `*lval = l.tokens[l.lastPos]` followed by `lval.id = id`.
Retag(tok, id) == [tok EXCEPT !.id = id]

---------------------------------------------------------------------------
(* The INDEX rules of Lex. *)

\* prevID == ',' || prevID == '('
afterCommaOrParen(toks, p) ==
    TokAt(toks, p - 1).id = COMMA \/ TokAt(toks, p - 1).id = LPAREN

\* Variant: the SCRUB ... WITH OPTIONS INDEX ( case is left out.
afterCommaOnly(toks, p) == TokAt(toks, p - 1).id = COMMA

\* prevID == ',' || prevID == OPTIONS
afterCommaOrOPTIONS(toks, p) ==
    TokAt(toks, p - 1).id = COMMA \/ TokAt(toks, p - 1).id = OPTIONS

\* prevID == INVERTED && (pprevID == ',' || pprevID == '(')
afterCommaOrParenThenINVERTED(toks, p) ==
    /\ TokAt(toks, p - 1).id = INVERTED
    /\ (TokAt(toks, p - 2).id = COMMA \/ TokAt(toks, p - 2).id = LPAREN)

\* nextID == '('
followedByParen(toks, p) == TokAt(toks, p + 1).id = LPAREN

\* Variant: the second token after INDEX is not looked at.
followedByNonPunct(toks, p) == TokAt(toks, p + 1).id > 255

\* nextID > 255 && secondID == '('
followedByNonPunctThenParen(toks, p) ==
    TokAt(toks, p + 1).id > 255 /\ TokAt(toks, p + 2).id = LPAREN

\* The condition of the first `if`: INDEX becomes INDEX_BEFORE_PAREN.
BeforeParenCond(toks, p) ==
    \/ (afterCommaOrParen(toks, p) /\ followedByParen(toks, p))
    \/ (afterCommaOrOPTIONS(toks, p) /\ followedByParen(toks, p))
    \/ (afterCommaOrParenThenINVERTED(toks, p) /\ followedByParen(toks, p))

\* Variant: the INVERTED INDEX abc ( case is left out.
BeforeNameThenParenCondNoInverted(toks, p) ==
    afterCommaOrParen(toks, p) /\ followedByNonPunctThenParen(toks, p)

\* The condition of the second `if`: INDEX becomes
\* INDEX_BEFORE_NAME_THEN_PAREN.
BeforeNameThenParenCond(toks, p) ==
    \/ (afterCommaOrParen(toks, p) /\ followedByNonPunctThenParen(toks, p))
    \/ (afterCommaOrParenThenINVERTED(toks, p)
            /\ followedByNonPunctThenParen(toks, p))

\* prevID == ',' || (prevID == BY && pprevID == ORDER)
afterCommaOrOrderBy(toks, p) ==
    \/ TokAt(toks, p - 1).id = COMMA
    \/ (TokAt(toks, p - 1).id = BY_KW /\ TokAt(toks, p - 2).id = ORDER)

\* Variant: the loop bound is i <= l.lastPos+7, one token too far.
RECURSIVE atSignScanWide(_, _, _)
atSignScanWide(toks, p, i) ==
    IF ~(i < Len(toks) /\ i <= p + 7)
    THEN FALSE
    ELSE LET curToken == toks[i + 1].id
         IN  IF curToken < 255 /\ curToken # DOT /\ curToken # ATSIGN
             THEN FALSE
             ELSE IF curToken = ATSIGN
                  THEN i # p + 1
                  ELSE atSignScanWide(toks, p, i + 1)

\* Variant: the loop does not stop at punctuation other than '.'.
RECURSIVE atSignScanNoAbort(_, _, _)
atSignScanNoAbort(toks, p, i) ==
    IF ~(i < Len(toks) /\ i < p + 7)
    THEN FALSE
    ELSE LET curToken == toks[i + 1].id
         IN  IF curToken = ATSIGN
             THEN i # p + 1
             ELSE atSignScanNoAbort(toks, p, i + 1)

\* The scan loop `for i := l.lastPos + 1; i < len(l.tokens) && i <
\* l.lastPos+7; i++`, entered at index i: the value atSignAfterObjectName
\* has when the loop ends.
RECURSIVE atSignScan(_, _, _)
atSignScan(toks, p, i) ==
    IF ~(i < Len(toks) /\ i < p + 7)
    THEN FALSE
    ELSE LET curToken == toks[i + 1].id
         IN  IF curToken < 255 /\ curToken # DOT /\ curToken # ATSIGN
             THEN FALSE                      \* definitely not object name
             ELSE IF curToken = ATSIGN
                  THEN i # p + 1             \* '@' cannot follow INDEX directly
                  ELSE atSignScan(toks, p, i + 1)

atSignAfterObjectName(toks, p) == atSignScan(toks, p, p + 1)

\* The condition under which the third rule retags INDEX to
\* INDEX_AFTER_ORDER_BY_BEFORE_AT, were it evaluated on its own.
AfterOrderByBeforeAtCond(toks, p) ==
    afterCommaOrOrderBy(toks, p) /\ atSignAfterObjectName(toks, p)

\* case INDEX: the two paren rules `break` out before the '@' rule.
LexINDEX(toks, p) ==
    IF BeforeParenCond(toks, p) THEN INDEX_BEFORE_PAREN
    ELSE IF BeforeNameThenParenCond(toks, p) THEN INDEX_BEFORE_NAME_THEN_PAREN
    ELSE IF AfterOrderByBeforeAtCond(toks, p) THEN INDEX_AFTER_ORDER_BY_BEFORE_AT
    ELSE INDEX

---------------------------------------------------------------------------
(* The other rules of Lex. *)

\* Variant: the token after NOTHING is compared instead of the one before.
LexNOTHINGNext(toks, p) ==
    IF TokAt(toks, p + 1).id = RETURNING
    THEN NOTHING_AFTER_RETURNING
    ELSE NOTHING

\* case NOTHING
LexNOTHING(toks, p) ==
    IF p > 0 /\ toks[p].id = RETURNING   \* l.tokens[l.lastPos-1]
    THEN NOTHING_AFTER_RETURNING
    ELSE NOTHING

\* Variant: the token after TRACING is compared by id, not by text.
LexSETById(toks, p) ==
    LET nextToken == TokAt(toks, p + 1)
        secondToken == TokAt(toks, p + 2)
        thirdToken == TokAt(toks, p + 3)
    IN  IF nextToken.id = TRACING
        THEN IF secondToken.id # DOT THEN SET_TRACING ELSE SET
        ELSE IF nextToken.id = SESSION /\ secondToken.id = TRACING
             THEN IF thirdToken.id # DOT THEN SET_TRACING ELSE SET
             ELSE SET

\* case SET of the inner switch
LexSET(toks, p) ==
    LET nextToken == TokAt(toks, p + 1)
        secondToken == TokAt(toks, p + 2)
        thirdToken == TokAt(toks, p + 3)
    IN  IF nextToken.id = TRACING
        THEN IF secondToken.str # "." THEN SET_TRACING ELSE SET
        ELSE IF nextToken.id = SESSION /\ secondToken.id = TRACING
             THEN IF thirdToken.str # "." THEN SET_TRACING ELSE SET
             ELSE SET

\* Variant: AS OF is taken for AS OF SYSTEM TIME whatever follows OF.
LexASNoSecond(toks, p) ==
    IF TokAt(toks, p + 1).id = OF THEN AS_LA ELSE AS

\* case AS of the inner switch
LexAS(toks, p) ==
    IF TokAt(toks, p + 1).id = OF /\ TokAt(toks, p + 2).id = SYSTEM
    THEN AS_LA
    ELSE AS

\* case NOT of the inner switch
LexNOT(toks, p) ==
    IF TokAt(toks, p + 1).id \in {BETWEEN, IN_KW, LIKE, ILIKE, SIMILAR}
    THEN NOT_LA
    ELSE NOT

\* Variant: the two results of the GENERATED rules are exchanged.
LexGENERATEDSwapped(toks, p) ==
    IF TokAt(toks, p + 1).id = ALWAYS THEN GENERATED_BY_DEFAULT
    ELSE IF TokAt(toks, p + 1).id = BY_KW THEN GENERATED_ALWAYS
    ELSE GENERATED

\* case GENERATED of the inner switch
LexGENERATED(toks, p) ==
    IF TokAt(toks, p + 1).id = ALWAYS THEN GENERATED_ALWAYS
    ELSE IF TokAt(toks, p + 1).id = BY_KW THEN GENERATED_BY_DEFAULT
    ELSE GENERATED

\* case WITH of the inner switch
LexWITH(toks, p) ==
    IF TokAt(toks, p + 1).id \in {TIME, ORDINALITY, BUCKET_COUNT}
    THEN WITH_LA
    ELSE WITH_KW

\* case NULLS of the inner switch
LexNULLS(toks, p) ==
    IF TokAt(toks, p + 1).id \in {FIRST, LAST} THEN NULLS_LA ELSE NULLS

\* cases RESET, ROLE, USER, TENANT, CLUSTER of the inner switch: each is
\* `switch nextToken.id { case ALL: lval.id = <variant> }`.
LexBeforeALL(toks, p, variant) ==
    IF TokAt(toks, p + 1).id = ALL THEN variant ELSE toks[p + 1].id

\* Variant: ON UPDATE is retagged whatever follows UPDATE.
LexONAnyUpdate(toks, p) ==
    IF TokAt(toks, p + 1).id \in {DELETE, UPDATE} THEN ON_LA ELSE ON

\* Variant: the second-next token is compared by the identity Lex will
\* return for it, not by the scanner's one.
LexONSeesRetagged(toks, p) ==
    IF TokAt(toks, p + 1).id = DELETE THEN ON_LA
    ELSE IF /\ TokAt(toks, p + 1).id = UPDATE
            /\ (IF TokAt(toks, p + 2).id = SET
                THEN LexSET(toks, p + 2)
                ELSE TokAt(toks, p + 2).id) \in {NO, RESTRICT, CASCADE, SET}
         THEN ON_LA
         ELSE ON

\* case ON of the inner switch
LexON(toks, p) ==
    IF TokAt(toks, p + 1).id = DELETE THEN ON_LA
    ELSE IF /\ TokAt(toks, p + 1).id = UPDATE
            /\ TokAt(toks, p + 2).id \in {NO, RESTRICT, CASCADE, SET}
         THEN ON_LA
         ELSE ON

\* case NOT, WITH, AS, GENERATED, NULLS, RESET, ROLE, USER, ON, TENANT,
\* CLUSTER, SET: the inner switch on lval.id.
LexLookahead(toks, p) ==
    LET id == toks[p + 1].id
    IN  CASE id = AS -> LexAS(toks, p)
          [] id = NOT -> LexNOT(toks, p)
          [] id = GENERATED -> LexGENERATED(toks, p)
          [] id = WITH_KW -> LexWITH(toks, p)
          [] id = NULLS -> LexNULLS(toks, p)
          [] id = RESET -> LexBeforeALL(toks, p, RESET_ALL)
          [] id = ROLE -> LexBeforeALL(toks, p, ROLE_ALL)
          [] id = USER -> LexBeforeALL(toks, p, USER_ALL)
          [] id = ON -> LexON(toks, p)
          [] id = TENANT -> LexBeforeALL(toks, p, TENANT_ALL)
          [] id = CLUSTER -> LexBeforeALL(toks, p, CLUSTER_ALL)
          [] id = SET -> LexSET(toks, p)
          [] OTHER -> id

\* Variant: the RETURNING NOTHING rule also marks the RETURNING token.
LexIdMarksReturning(toks, p) ==
    LET id == toks[p + 1].id
    IN  CASE id = NOTHING -> LexNOTHING(toks, p)
          [] id = RETURNING /\ TokAt(toks, p + 1).id = NOTHING ->
               NOTHING_AFTER_RETURNING
          [] id = INDEX -> LexINDEX(toks, p)
          [] id \in {NOT, WITH_KW, AS, GENERATED, NULLS, RESET, ROLE, USER,
                     ON, TENANT, CLUSTER, SET} -> LexLookahead(toks, p)
          [] OTHER -> id

\* The id Lex returns for the token at index p < len(tokens): the outer
\* `switch lval.id`.
LexId(toks, p) ==
    LET id == toks[p + 1].id
    IN  CASE id = NOTHING -> LexNOTHING(toks, p)
          [] id = INDEX -> LexINDEX(toks, p)
          [] id \in {NOT, WITH_KW, AS, GENERATED, NULLS, RESET, ROLE, USER,
                     ON, TENANT, CLUSTER, SET} -> LexLookahead(toks, p)
          [] OTHER -> id

\* What Lex writes into *lval once lastPos has been advanced to p.
LexToken(toks, src, p) ==
    IF p >= Len(toks)
    THEN EOFToken(src)
    ELSE Retag(toks[p + 1], LexId(toks, p))

---------------------------------------------------------------------------
(* Inputs: what the scanner hands to init.  A lexeme is a token before it *)
(* is given its offset: its id, its text (str) and the characters it      *)
(* takes in the source (raw).  The source text is the lexemes' raw texts  *)
(* separated by single blanks, and a token's pos is the offset of its raw *)
(* text in the source.                                                    *)

Lexeme(id, text) == [id |-> id, str |-> text, raw |-> text]

LxLParen == Lexeme(LPAREN, "(")
LxComma == Lexeme(COMMA, ",")
LxDot == Lexeme(DOT, ".")
LxEquals == Lexeme(EQUALS, "=")
LxAtSign == Lexeme(ATSIGN, "@")
LxIdent == Lexeme(IDENT, "a")
\* the string literal '.': its text is the unquoted "."
LxDotString == [id |-> SCONST, str |-> ".", raw |-> "'.'"]
LxINDEX == Lexeme(INDEX, "index")

\* All sequences over alphabet A of length 0..n.
SeqsUpTo(A, n) == UNION {[1..k -> A] : k \in 0..n}

RECURSIVE SourceOf(_)
SourceOf(lexs) ==
    IF lexs = <<>> THEN ""
    ELSE IF Len(lexs) = 1 THEN lexs[1].raw
    ELSE lexs[1].raw \o " " \o SourceOf(Tail(lexs))

RECURSIVE OffsetOf(_, _)
OffsetOf(lexs, i) ==
    IF i = 1 THEN 0 ELSE OffsetOf(lexs, i - 1) + Len(lexs[i - 1].raw) + 1

TokensOf(lexs) ==
    [i \in 1..Len(lexs) |->
        [id |-> lexs[i].id, pos |-> OffsetOf(lexs, i), str |-> lexs[i].str]]

\* Windows around one INDEX token: every choice of the LookBehind tokens
\* Lex may read before it (or fewer) and up to MaxAhead tokens after it.
IndexBehind ==
    {LxComma, LxLParen, Lexeme(OPTIONS, "options"),
     Lexeme(INVERTED, "inverted"), Lexeme(VECTOR, "vector"),
     Lexeme(BY_KW, "by"), Lexeme(ORDER, "order")}

IndexAhead == {LxLParen, LxIdent, LxDot, LxAtSign}

InputsIndex ==
    {pre \o <<LxINDEX>> \o suf :
        pre \in SeqsUpTo(IndexBehind, LookBehind),
        suf \in SeqsUpTo(IndexAhead, MaxAhead)}

\* INDEX followed by up to MaxScan name tokens, dots and at-signs.
ScanBehind ==
    {<<LxComma>>, <<LxLParen>>,
     <<Lexeme(ORDER, "order"), Lexeme(BY_KW, "by")>>,
     <<LxIdent, Lexeme(BY_KW, "by")>>}

ScanAhead == {LxIdent, LxDot, LxAtSign}

InputsScan ==
    {pre \o <<LxINDEX>> \o suf :
        pre \in ScanBehind, suf \in SeqsUpTo(ScanAhead, MaxScan)}

\* `, INDEX` and `ORDER BY INDEX` followed by names and dots, then a
\* punctuation token that is neither '.' nor '@', then the '@'.
InputsScanPunct ==
    {pre \o <<LxINDEX>> \o body \o <<punct, LxAtSign>> :
        pre \in {<<LxComma>>, <<Lexeme(ORDER, "order"), Lexeme(BY_KW, "by")>>},
        body \in SeqsUpTo({LxIdent, LxDot}, MaxScan - 2),
        punct \in {LxEquals, LxComma}}

\* Statements of the code's comments and of the logic test:
\*   CREATE TABLE t(index INT)
\*   CREATE TABLE simple (a INT, VECTOR INDEX (vec1))
\*   CREATE TABLE alt_syntax (a INT, VECTOR INDEX vec_idx (vec1))
\*   ORDER BY index a.b@idx
InputsExamples ==
    LET create == Lexeme(CREATE, "create")
        table == Lexeme(TABLE, "table")
        int == Lexeme(INT, "int")
        vector == Lexeme(VECTOR, "vector")
        rparen == Lexeme(RPAREN, ")")
        name(n) == Lexeme(IDENT, n)
    IN  {<<create, table, name("t"), LxLParen, LxINDEX, int, rparen>>,
         <<create, table, name("simple"), LxLParen, name("a"), int, LxComma,
           vector, LxINDEX, LxLParen, name("vec1"), rparen, rparen>>,
         <<create, table, name("alt_syntax"), LxLParen, name("a"), int,
           LxComma, vector, LxINDEX, name("vec_idx"), LxLParen, name("vec1"),
           rparen, rparen>>,
         <<Lexeme(ORDER, "order"), Lexeme(BY_KW, "by"), LxINDEX, name("a"),
           LxDot, name("b"), LxAtSign, name("idx")>>}

\* Every array of up to MaxTokens tokens around NOTHING and RETURNING.
InputsNothing ==
    SeqsUpTo({Lexeme(NOTHING, "nothing"), Lexeme(RETURNING, "returning"),
              LxIdent, LxComma}, MaxTokens)

\* Every array of up to MaxTokens tokens around SET, TRACING and SESSION.
InputsSet ==
    SeqsUpTo({Lexeme(SET, "set"), Lexeme(TRACING, "tracing"),
              Lexeme(SESSION, "session"), LxDot, LxIdent, LxDotString,
              LxEquals}, MaxTokens)

\* Every array of up to MaxTokens tokens around AS, OF and SYSTEM.
InputsAs ==
    SeqsUpTo({Lexeme(AS, "as"), Lexeme(OF, "of"), Lexeme(SYSTEM, "system"),
              Lexeme(TIME, "time"), LxIdent}, MaxTokens)

\* Every array of up to MaxTokens tokens around ON, DELETE and UPDATE.
InputsOn ==
    SeqsUpTo({Lexeme(ON, "on"), Lexeme(DELETE, "delete"),
              Lexeme(UPDATE, "update"), Lexeme(NO, "no"),
              Lexeme(RESTRICT, "restrict"), Lexeme(CASCADE, "cascade"),
              Lexeme(SET, "set"), LxIdent}, MaxTokens)

\* The tokens the one-token lookahead rules are about: their triggers and
\* the tokens they look for.
OneAheadTriggers ==
    {Lexeme(NOT, "not"), Lexeme(WITH_KW, "with"), Lexeme(NULLS, "nulls"),
     Lexeme(GENERATED, "generated"), Lexeme(RESET, "reset"),
     Lexeme(ROLE, "role"), Lexeme(USER, "user"), Lexeme(TENANT, "tenant"),
     Lexeme(CLUSTER, "cluster")}

OneAheadFollowers ==
    {Lexeme(BETWEEN, "between"), Lexeme(IN_KW, "in"), Lexeme(LIKE, "like"),
     Lexeme(ILIKE, "ilike"), Lexeme(SIMILAR, "similar"), Lexeme(TIME, "time"),
     Lexeme(ORDINALITY, "ordinality"), Lexeme(BUCKET_COUNT, "bucket_count"),
     Lexeme(FIRST, "first"), Lexeme(LAST, "last"), Lexeme(ALWAYS, "always"),
     Lexeme(BY_KW, "by"), Lexeme(ALL, "all"), LxIdent}

\* Every array of up to MaxShort of these tokens.
InputsOneAhead == SeqsUpTo(OneAheadTriggers \cup OneAheadFollowers, MaxShort)

---------------------------------------------------------------------------
(* Strings, as the strings package computes on them; indices are 0-based  *)
(* as in Go.                                                              *)

\* strings.HasPrefix(s, prefix)
HasPrefix(s, prefix) ==
    Len(s) >= Len(prefix) /\ SubSeq(s, 1, Len(prefix)) = prefix

\* strings.TrimPrefix(s, prefix)
TrimPrefix(s, prefix) ==
    IF HasPrefix(s, prefix) THEN SubSeq(s, Len(prefix) + 1, Len(s)) ELSE s

\* strings.Contains(s, substr)
Contains(s, substr) ==
    \E i \in 1..(Len(s) - Len(substr) + 1) :
        SubSeq(s, i, i + Len(substr) - 1) = substr

\* strings.IndexByte(s, c): the index of the first c in s, or -1
IndexByte(s, c) ==
    LET at == {i \in 1..Len(s) : SubSeq(s, i, i) = c}
    IN  IF at = {} THEN -1
        ELSE (CHOOSE i \in at : \A j \in at : i <= j) - 1

\* strings.LastIndexByte(s, c): the index of the last c in s, or -1
LastIndexByte(s, c) ==
    LET at == {i \in 1..Len(s) : SubSeq(s, i, i) = c}
    IN  IF at = {} THEN -1
        ELSE (CHOOSE i \in at : \A j \in at : i >= j) - 1

\* strings.Repeat(s, count)
RECURSIVE Repeat(_, _)
Repeat(s, count) == IF count <= 0 THEN "" ELSE s \o Repeat(s, count - 1)

\* fmt's %d of a non-negative integer
RECURSIVE Itoa(_)
Itoa(n) ==
    LET digit == SubSeq("0123456789", (n % 10) + 1, (n % 10) + 1)
    IN  IF n < 10 THEN digit ELSE Itoa(n \div 10) \o digit

---------------------------------------------------------------------------
(* Error values.  An error is a tree: a leaf made by New, or a wrapper    *)
(* around another error, as the errors and pgerror packages build them.   *)

\* the nil error
Nil == [k |-> "nil"]

\* pgcode.Syntax
Syntax == "42601"

\* errors.New(msg), errors.Newf("%s", msg)
New(msg) == [k |-> "new", msg |-> msg]

\* pgerror.WithCandidateCode(err, code): nil stays nil
WithCandidateCode(err, code) ==
    IF err.k = "nil" THEN Nil ELSE [k |-> "code", err |-> err, code |-> code]

\* pgerror.Newf(code, msg)
PgNewf(code, msg) == WithCandidateCode(New(msg), code)

\* errors.Wrap(err, prefix), errors.Wrapf: the message becomes
\* prefix + ": " + err.Error(); nil stays nil
Wrap(err, prefix) ==
    IF err.k = "nil" THEN Nil
    ELSE [k |-> "wrap", err |-> err, prefix |-> prefix]

\* errors.WithSecondaryError(err, additionalErr): additionalErr is kept next
\* to err, outside its message and its chain of causes
WithSecondaryError(err, additionalErr) ==
    IF err.k = "nil" \/ additionalErr.k = "nil" THEN err
    ELSE [k |-> "secondary", err |-> err, secondary |-> additionalErr]

\* errors.WithDetail(err, detail)
WithDetail(err, detail) ==
    IF err.k = "nil" THEN Nil
    ELSE [k |-> "detail", err |-> err, detail |-> detail]

\* errors.WithHint(err, hint), errors.WithHintf
WithHint(err, hint) ==
    IF err.k = "nil" THEN Nil ELSE [k |-> "hint", err |-> err, hint |-> hint]

\* errors.WithTelemetry(err, key)
WithTelemetry(err, key) ==
    IF err.k = "nil" THEN Nil
    ELSE [k |-> "telemetry", err |-> err, key |-> key]

\* unimp.New(feature, msg), unimp.NewWithIssue(issue, msg),
\* unimp.NewWithIssueDetail(issue, detail, msg): an unimplemented-feature
\* error with the message "unimplemented: " + msg that carries the feature
\* name, the issue number (0: none) and the detail text.
UnimpNew(feature, issue, detail, msg) ==
    [k |-> "unimp", msg |-> "unimplemented: " \o msg, feature |-> feature,
     issue |-> issue, text |-> detail]

\* &tree.UnsupportedError{Err: err, FeatureName: feature}
UnsupportedError(err, feature) ==
    [k |-> "unsupported", err |-> err, feature |-> feature]

\* err.Error(): the message of a non-nil error
RECURSIVE ErrorMsg(_)
ErrorMsg(err) ==
    CASE err.k \in {"new", "unimp"} -> err.msg
      [] err.k = "wrap" -> err.prefix \o ": " \o ErrorMsg(err.err)
      [] OTHER -> ErrorMsg(err.err)

---------------------------------------------------------------------------
(* The diagnostic context builder. *)

\* Variant: every diagnostic is framed as a syntax error.
PopulateErrorDetailsAllSyntactic(tokID, lastTokStr, lastTokPos, lastErr, lIn) ==
    LET retErr ==
            Wrap(IF Contains(ErrorMsg(lastErr), "syntax error") THEN lastErr
                 ELSE Wrap(lastErr, "syntax error"),
                 "at or near \"" \o lastTokStr \o "\"")
    IN  WithDetail(retErr, "source SQL:\n" \o lIn \o "\n^")

\* Variant: the caret is indented by the offset of the token in the text,
\* not by its offset in its line.
PopulateErrorDetailsAbsCaret(tokID, lastTokStr, lastTokPos, lastErr, lIn) ==
    LET retErr ==
            IF tokID = ERROR
            THEN WithSecondaryError(
                     WithCandidateCode(New("lexical error: " \o lastTokStr),
                                       Syntax),
                     lastErr)
            ELSE Wrap(IF ~Contains(ErrorMsg(lastErr), "syntax error")
                      THEN Wrap(lastErr, "syntax error")
                      ELSE lastErr,
                      "at or near \"" \o lastTokStr \o "\"")
        nl == IndexByte(SubSeq(lIn, lastTokPos + 1, Len(lIn)), "\n")
        i == IF nl = -1 THEN Len(lIn) ELSE nl + lastTokPos
    IN  WithDetail(retErr,
                   "source SQL:\n" \o SubSeq(lIn, 1, i) \o "\n"
                       \o Repeat(" ", lastTokPos) \o "^")

\* PopulateErrorDetails(tokID, lastTokStr, lastTokPos, lastErr, lIn)
PopulateErrorDetails(tokID, lastTokStr, lastTokPos, lastErr, lIn) ==
    LET retErr ==
            IF tokID = ERROR
            THEN WithSecondaryError(
                     WithCandidateCode(New("lexical error: " \o lastTokStr),
                                       Syntax),
                     lastErr)
            ELSE Wrap(IF ~Contains(ErrorMsg(lastErr), "syntax error")
                      THEN Wrap(lastErr, "syntax error")
                      ELSE lastErr,
                      "at or near \"" \o lastTokStr \o "\"")
        nl == IndexByte(SubSeq(lIn, lastTokPos + 1, Len(lIn)), "\n")
        i == IF nl = -1 THEN Len(lIn) ELSE nl + lastTokPos
        j == LastIndexByte(SubSeq(lIn, 1, lastTokPos), "\n") + 1
    IN  WithDetail(retErr,
                   "source SQL:\n" \o SubSeq(lIn, 1, i) \o "\n"
                       \o Repeat(" ", lastTokPos - j) \o "^")

\* Variant: the token before the one Lex returned last.
lastTokenOneBehind(toks, src, p) ==
    IF p < 1 THEN ZeroToken
    ELSE IF p - 1 >= Len(toks) THEN EOFToken(src)
    ELSE toks[p]

\* lexer.lastToken()
lastToken(toks, src, p) ==
    IF p < 0 THEN ZeroToken
    ELSE IF p >= Len(toks) THEN EOFToken(src)
    ELSE toks[p + 1]

\* lexer.populateErrorDetails(): the new value of lastError
populateErrorDetails(toks, src, p, err) ==
    LET lastTok == lastToken(toks, src, p)
    IN  PopulateErrorDetails(lastTok.id, lastTok.str, lastTok.pos, err, src)

\* specialHelpErrorPrefix
specialHelpErrorPrefix == "help token in input"

\* lexer.populateHelpMsg(msg): the new value of lastError
populateHelpMsg(err, msg) == WithHint(Wrap(err, specialHelpErrorPrefix), msg)

---------------------------------------------------------------------------
(* State machine. *)

\* lexer.init(sql, tokens, nakedIntType) on the scanner's output for lexs.
InitOn(lexs) ==
    /\ in = SourceOf(lexs)
    /\ tokens = TokensOf(lexs)
    /\ lastPos = -1
    /\ stmt = "nil"
    /\ numPlaceholders = 0
    /\ numAnnotations = 0
    /\ lastError = Nil
    /\ lval = ZeroToken
    /\ out = <<>>
    /\ recorded = {}
    /\ annCalls = 0
    /\ annRet = 0
    /\ errCall = ""
    /\ errPos = -1
    /\ errArg = {}
    /\ overwrote = FALSE

\* Variant: the cursor moves past the token it returns.
AdvanceTwice(p) == p + 2

\* l.lastPos++
Advance(p) == p + 1

\* One call of Lex.  The parser stops calling once it has been handed
\* MaxEOFCalls end-of-input tokens.
Lex ==
    /\ lastPos < Len(tokens) + MaxEOFCalls - 1
    /\ lastPos' = Advance(lastPos)
    /\ lval' = LexToken(tokens, in, lastPos')
    /\ out' = Append(out, lval')
    /\ UNCHANGED <<in, tokens, stmt, numPlaceholders, numAnnotations,
                   lastError>>
    /\ UNCHANGED callVars

LexNext == Lex

\* One call of lastToken(): a read of the token at the cursor.
lastTokenCall ==
    /\ lastToken(tokens, in, lastPos) \in
           {ZeroToken, EOFToken(in)} \cup {tokens[i] : i \in 1..Len(tokens)}
    /\ UNCHANGED lexerVars
    /\ UNCHANGED callVars

\* Variant: NewAnnotation returns the index before incrementing it.
NewAnnotationReturnsOld ==
    /\ numAnnotations < MaxAnnotations
    /\ numAnnotations' = numAnnotations + 1
    /\ annRet' = numAnnotations
    /\ annCalls' = annCalls + 1
    /\ UNCHANGED <<in, tokens, lastPos, stmt, numPlaceholders, lastError,
                   lval, out>>
    /\ UNCHANGED <<recorded, errCall, errArg, errPos, overwrote>>

\* Variant: allocating an annotation consumes a token.
NewAnnotationSkipsToken ==
    /\ numAnnotations < MaxAnnotations
    /\ numAnnotations' = numAnnotations + 1
    /\ annRet' = numAnnotations'
    /\ annCalls' = annCalls + 1
    /\ lastPos' = lastPos + 1
    /\ UNCHANGED <<in, tokens, stmt, numPlaceholders, lastError, lval, out>>
    /\ UNCHANGED <<recorded, errCall, errArg, errPos, overwrote>>

\* NewAnnotation(): l.numAnnotations++; return l.numAnnotations
NewAnnotation ==
    /\ numAnnotations < MaxAnnotations
    /\ numAnnotations' = numAnnotations + 1
    /\ annRet' = numAnnotations'
    /\ annCalls' = annCalls + 1
    /\ UNCHANGED <<in, tokens, lastPos, stmt, numPlaceholders, lastError,
                   lval, out>>
    /\ UNCHANGED <<recorded, errCall, errArg, errPos, overwrote>>

\* SetStmt(stmt)
SetStmt(s) ==
    /\ stmt' = s
    /\ UNCHANGED <<in, tokens, lastPos, numPlaceholders, numAnnotations,
                   lastError, lval, out>>
    /\ UNCHANGED callVars

\* Variant: the counter is set to the index just seen, plus one.
UpdateNumPlaceholdersOverwrites(idx) ==
    /\ numPlaceholders' = idx + 1
    /\ recorded' = recorded \cup {idx}
    /\ UNCHANGED <<in, tokens, lastPos, stmt, numAnnotations, lastError,
                   lval, out>>
    /\ UNCHANGED <<annCalls, annRet, errCall, errArg, errPos, overwrote>>

\* UpdateNumPlaceholders(p) with p.Idx = idx
UpdateNumPlaceholders(idx) ==
    /\ numPlaceholders' =
           IF numPlaceholders < idx + 1 THEN idx + 1 ELSE numPlaceholders
    /\ recorded' = recorded \cup {idx}
    /\ UNCHANGED <<in, tokens, lastPos, stmt, numAnnotations, lastError,
                   lval, out>>
    /\ UNCHANGED <<annCalls, annRet, errCall, errArg, errPos, overwrote>>

\* What every error-setting operation does to the state: it stores err in
\* l.lastError and touches no other field.
StoreError(name, texts, err) ==
    /\ lastError' = err
    /\ errCall' = name
    /\ errArg' = texts
    /\ errPos' = lastPos
    /\ overwrote' = (lastError.k # "nil")
    /\ UNCHANGED <<in, tokens, lastPos, stmt, numPlaceholders, numAnnotations,
                   lval, out>>
    /\ UNCHANGED <<recorded, annCalls, annRet>>

\* PurposelyUnimplemented(feature, reason)
PurposelyUnimplemented(feature, reason) ==
    LET err == WithHint(
                   WithTelemetry(
                       PgNewf(Syntax, "unimplemented: this syntax"),
                       "sql.purposely_unimplemented." \o feature),
                   reason)
    IN  StoreError("PurposelyUnimplemented", {feature, reason},
                   UnsupportedError(
                       populateErrorDetails(tokens, in, lastPos, err),
                       feature))

\* UnimplementedWithIssue(issue)
UnimplementedWithIssue(issue) ==
    LET err == UnimpNew("", issue, "", "this syntax")
    IN  StoreError("UnimplementedWithIssue", {Itoa(issue)},
                   UnsupportedError(
                       populateErrorDetails(tokens, in, lastPos, err),
                       "https://github.com/cockroachdb/cockroach/issues/"
                           \o Itoa(issue)))

\* UnimplementedWithIssueDetail(issue, detail)
UnimplementedWithIssueDetail(issue, detail) ==
    LET err == UnimpNew("", issue, detail, "this syntax")
    IN  StoreError("UnimplementedWithIssueDetail", {Itoa(issue), detail},
                   UnsupportedError(
                       populateErrorDetails(tokens, in, lastPos, err),
                       detail))

\* Variant: the context of the last token is added after the error has been
\* made an UnsupportedError, not before.
UnimplementedPopulatesLast(feature) ==
    LET err == UnimpNew(feature, 0, "", "this syntax")
    IN  StoreError("Unimplemented", {feature},
                   populateErrorDetails(tokens, in, lastPos,
                                        UnsupportedError(err, feature)))

\* Unimplemented(feature)
Unimplemented(feature) ==
    LET err == UnimpNew(feature, 0, "", "this syntax")
    IN  StoreError("Unimplemented", {feature},
                   UnsupportedError(
                       populateErrorDetails(tokens, in, lastPos, err),
                       feature))

\* Variant: setErr keeps the error that was pending next to the new one.
setErrKeepsPending(err) ==
    StoreError("setErr", {ErrorMsg(err)},
               WithSecondaryError(
                   populateErrorDetails(tokens, in, lastPos,
                                        WithCandidateCode(err, Syntax)),
                   lastError))

\* setErr(err)
setErr(err) ==
    StoreError("setErr", {ErrorMsg(err)},
               populateErrorDetails(tokens, in, lastPos,
                                    WithCandidateCode(err, Syntax)))

\* setErrNoDetails(err)
setErrNoDetails(err) ==
    StoreError("setErrNoDetails", {ErrorMsg(err)},
               WithCandidateCode(err, Syntax))

\* Variant: Error stores the error without the context of the last token.
ErrorSkipsDetails(e) ==
    LET msg == TrimPrefix(e, "syntax error: ")
    IN  StoreError("Error", {e}, WithCandidateCode(New(msg), Syntax))

\* Error(e)
Error(e) ==
    LET msg == TrimPrefix(e, "syntax error: ")
    IN  StoreError("Error", {e},
                   populateErrorDetails(tokens, in, lastPos,
                                        WithCandidateCode(New(msg), Syntax)))

\* The number of SetHelp calls whose payload or hint err carries.
RECURSIVE HelpDepth(_)
HelpDepth(err) ==
    CASE err.k \in {"nil", "new", "unimp"} -> 0
      [] err.k = "wrap" /\ err.prefix = specialHelpErrorPrefix ->
           1 + HelpDepth(err.err)
      [] err.k = "hint" /\ HasPrefix(err.hint, "try \\h") ->
           1 + HelpDepth(err.err)
      [] OTHER -> HelpDepth(err.err)

\* HelpMessage.String(): the rendered help text of msg
HelpMessageString(msg) == msg.Text

\* Variant: SetHelp starts from a new "help request" error whether or not
\* an error is pending.
SetHelpDropsPending(msg) ==
    LET pending == WithCandidateCode(New("help request"), Syntax)
    IN  /\ HelpDepth(lastError) < MaxHelpCalls
        /\ lastError' =
               IF lastToken(tokens, in, lastPos).id = HELPTOKEN
               THEN populateHelpMsg(pending, HelpMessageString(msg))
               ELSE IF msg.Command # ""
                    THEN WithHint(pending, "try \\h " \o msg.Command)
                    ELSE WithHint(pending, "try \\hf " \o msg.Function)
        /\ UNCHANGED <<in, tokens, lastPos, stmt, numPlaceholders,
                       numAnnotations, lval, out>>
        /\ UNCHANGED callVars

\* SetHelp(msg)
SetHelp(msg) ==
    LET pending == IF lastError.k = "nil"
                   THEN WithCandidateCode(New("help request"), Syntax)
                   ELSE lastError
    IN  /\ HelpDepth(lastError) < MaxHelpCalls
        /\ lastError' =
               IF lastToken(tokens, in, lastPos).id = HELPTOKEN
               THEN populateHelpMsg(pending, HelpMessageString(msg))
               ELSE IF msg.Command # ""
                    THEN WithHint(pending, "try \\h " \o msg.Command)
                    ELSE WithHint(pending, "try \\hf " \o msg.Function)
        /\ UNCHANGED <<in, tokens, lastPos, stmt, numPlaceholders,
                       numAnnotations, lval, out>>
        /\ UNCHANGED callVars

\* Variant: init leaves the cursor and the counters of the previous attempt.
initKeepsCursor(lexs) ==
    /\ in' = SourceOf(lexs)
    /\ tokens' = TokensOf(lexs)
    /\ stmt' = "nil"
    /\ lastError' = Nil
    /\ lval' = ZeroToken
    /\ out' = <<>>
    /\ recorded' = {}
    /\ annCalls' = 0
    /\ annRet' = 0
    /\ errCall' = ""
    /\ errArg' = {}
    /\ errPos' = -1
    /\ overwrote' = FALSE
    /\ UNCHANGED <<lastPos, numPlaceholders, numAnnotations>>

\* Variant: cleanup also rewinds the cursor.
cleanupRewinds ==
    /\ tokens' = <<>>
    /\ stmt' = "nil"
    /\ lastError' = Nil
    /\ lastPos' = -1
    /\ errCall' = ""
    /\ errArg' = {}
    /\ errPos' = -1
    /\ overwrote' = FALSE
    /\ UNCHANGED <<in, numPlaceholders, numAnnotations, lval, out>>
    /\ UNCHANGED <<recorded, annCalls, annRet>>

\* cleanup()
cleanup ==
    /\ tokens' = <<>>
    /\ stmt' = "nil"
    /\ lastError' = Nil
    /\ errCall' = ""
    /\ errArg' = {}
    /\ errPos' = -1
    /\ overwrote' = FALSE
    /\ UNCHANGED <<in, lastPos, numPlaceholders, numAnnotations, lval, out>>
    /\ UNCHANGED <<recorded, annCalls, annRet>>

\* init(sql, tokens, nakedIntType) on a lexer that has been used: the next
\* parse, with a new token buffer on the parser's side.
init(lexs) ==
    /\ in' = SourceOf(lexs)
    /\ tokens' = TokensOf(lexs)
    /\ lastPos' = -1
    /\ stmt' = "nil"
    /\ numPlaceholders' = 0
    /\ numAnnotations' = 0
    /\ lastError' = Nil
    /\ lval' = ZeroToken
    /\ out' = <<>>
    /\ recorded' = {}
    /\ annCalls' = 0
    /\ annRet' = 0
    /\ errCall' = ""
    /\ errArg' = {}
    /\ errPos' = -1
    /\ overwrote' = FALSE

\* What the parser passes to the operations.
PlaceholderIdxs == 0..MaxPlaceholderIdx
Stmts == {"stmt1", "stmt2"}
ErrArgs == {New("invalid value"), New("duplicate syntax error")}
ErrorArgs == {"syntax error: unexpected", "malformed"}
Features == {"featX"}
Reasons == {"reasonY"}
Issues == {4703}
Details == {"detailZ"}
HelpMessages ==
    {[Command |-> "SELECT", Function |-> "", Text |-> "help for SELECT"],
     [Command |-> "", Function |-> "abs", Text |-> "help for abs"]}

\* The scanner's ERROR token (its text is the scanner's message) and the
\* HELPTOKEN it emits for `??`.
LxError == [id |-> ERROR, str |-> "unterminated string", raw |-> "'abc"]
LxHelp == [id |-> HELPTOKEN, str |-> "??", raw |-> "??"]

\* Statements for the registry: one with retagged tokens, a one-token one
\* and the empty one.
InputsRegistry ==
    {<<Lexeme(ON, "on"), Lexeme(UPDATE, "update"), Lexeme(SET, "set"),
       Lexeme(TRACING, "tracing")>>,
     <<LxIdent>>,
     <<>>}

\* Statements for the diagnostics: one the scanner failed on, one with a
\* help request, one plain.
InputsDiag ==
    {<<LxIdent, LxError>>,
     <<Lexeme(SET, "set"), LxHelp>>,
     <<Lexeme(SET, "set"), Lexeme(TRACING, "tracing")>>}

\* Statements for a lexer that is used for one parse after another.
InputsReuse ==
    {<<LxError>>,
     <<Lexeme(SET, "set"), LxHelp>>}

\* The calls of the registry between those of Lex, and an error set on the
\* way.
RegistryNext ==
    \/ Lex
    \/ lastTokenCall
    \/ NewAnnotation
    \/ \E idx \in PlaceholderIdxs : UpdateNumPlaceholders(idx)
    \/ \E s \in Stmts : SetStmt(s)
    \/ \E e \in {"malformed"} : Error(e)

InitRegistry == \E lexs \in InputsRegistry : InitOn(lexs)
SpecRegistry == InitRegistry /\ [][RegistryNext]_vars

\* The calls that set or decorate the diagnostic.
ErrorsNext ==
    \/ Lex
    \/ \E err \in ErrArgs : setErr(err)
    \/ \E err \in ErrArgs : setErrNoDetails(err)
    \/ \E e \in ErrorArgs : Error(e)
    \/ \E feature \in Features, reason \in Reasons :
           PurposelyUnimplemented(feature, reason)
    \/ \E issue \in Issues : UnimplementedWithIssue(issue)
    \/ \E issue \in Issues, detail \in Details :
           UnimplementedWithIssueDetail(issue, detail)
    \/ \E feature \in Features : Unimplemented(feature)
    \/ \E msg \in HelpMessages : SetHelp(msg)

InitErrors == \E lexs \in InputsDiag : InitOn(lexs)
SpecErrors == InitErrors /\ [][ErrorsNext]_vars

\* lexer.init(sql, tokens, nakedIntType) on a source text and a token array
\* given as they are.
InitWith(sql, toks) ==
    /\ in = sql
    /\ tokens = toks
    /\ lastPos = -1
    /\ stmt = "nil"
    /\ numPlaceholders = 0
    /\ numAnnotations = 0
    /\ lastError = Nil
    /\ lval = ZeroToken
    /\ out = <<>>
    /\ recorded = {}
    /\ annCalls = 0
    /\ annRet = 0
    /\ errCall = ""
    /\ errArg = {}
    /\ errPos = -1
    /\ overwrote = FALSE

\* Every text of up to n characters, each a letter or a newline.
RECURSIVE TextsUpTo(_)
TextsUpTo(n) ==
    IF n = 0 THEN {""}
    ELSE LET shorter == TextsUpTo(n - 1)
         IN  shorter \cup {t \o c : t \in shorter, c \in {"a", "\n"}}

\* Source texts of one or several lines.
Sources == TextsUpTo(MaxSource)

\* The calls that build a diagnostic at a token of a source text.
DetailNext ==
    \/ Lex
    \/ \E err \in {New("invalid value")} : setErr(err)

\* A source text and, as the scanner's output, one token that starts at
\* any offset of it.
InitDetail ==
    \E sql \in Sources :
        \E p \in 0..Len(sql) :
            InitWith(sql, <<[id |-> IDENT, pos |-> p, str |-> "x"]>>)
SpecDetail == InitDetail /\ [][DetailNext]_vars

\* Every operation of the lexer, each with a few of its arguments.
Next ==
    \/ Lex
    \/ lastTokenCall
    \/ NewAnnotation
    \/ \E idx \in {0, 2} : UpdateNumPlaceholders(idx)
    \/ \E s \in {"stmt1"} : SetStmt(s)
    \/ \E err \in {New("invalid value")} : setErr(err)
    \/ \E err \in {New("invalid value")} : setErrNoDetails(err)
    \/ \E e \in {"syntax error: unexpected"} : Error(e)
    \/ \E feature \in Features, reason \in Reasons :
           PurposelyUnimplemented(feature, reason)
    \/ \E issue \in Issues : UnimplementedWithIssue(issue)
    \/ \E issue \in Issues, detail \in Details :
           UnimplementedWithIssueDetail(issue, detail)
    \/ \E feature \in Features : Unimplemented(feature)
    \/ \E msg \in {[Command |-> "SELECT", Function |-> "",
                      Text |-> "help for SELECT"]} : SetHelp(msg)
    \/ cleanup
    \/ \E lexs \in InputsReuse : init(lexs)

Init == \E lexs \in InputsReuse : InitOn(lexs)
Spec == Init /\ [][Next]_vars

\* The statement of the first parse of a lexer and those of its later
\* parses.
FirstInput == <<LxIdent, LxError>>
LaterInputs == {<<Lexeme(SET, "set"), LxHelp>>}

\* A lexer that parses FirstInput and is then set up again, with or without
\* a cleanup, for one of LaterInputs.
ReuseNext ==
    \/ Lex
    \/ NewAnnotation
    \/ \E idx \in {0, 2} : UpdateNumPlaceholders(idx)
    \/ \E s \in {"stmt1"} : SetStmt(s)
    \/ \E err \in {New("invalid value")} : setErr(err)
    \/ \E feature \in Features : Unimplemented(feature)
    \/ \E msg \in {[Command |-> "SELECT", Function |-> "",
                      Text |-> "help for SELECT"]} : SetHelp(msg)
    \/ cleanup
    \/ \E lexs \in LaterInputs : init(lexs)

InitReuse == InitOn(FirstInput)
SpecReuse == InitReuse /\ [][ReuseNext]_vars

\* Statements in which a token that a rule looks at is itself the trigger
\* of a rule, or lies at the edge of the window a rule looks at.
InputsStream ==
    {<<Lexeme(ON, "on"), Lexeme(UPDATE, "update"), Lexeme(SET, "set"),
       Lexeme(TRACING, "tracing")>>,
     <<Lexeme(ON, "on"), Lexeme(UPDATE, "update"), Lexeme(SET, "set"),
       Lexeme(SESSION, "session"), Lexeme(TRACING, "tracing"), LxDot,
       LxIdent>>,
     <<Lexeme(ORDER, "order"), Lexeme(BY_KW, "by"), LxINDEX,
       Lexeme(SET, "set"), Lexeme(TRACING, "tracing"), LxAtSign, LxIdent>>,
     <<LxComma, LxINDEX, LxIdent, LxDot, LxIdent, LxDot, LxIdent, LxAtSign,
       LxIdent>>,
     <<LxComma, LxINDEX, LxIdent, LxDot, LxIdent, LxDot, LxIdent, LxDot,
       LxAtSign>>,
     <<LxLParen, LxINDEX, Lexeme(NOT, "not"), LxLParen, Lexeme(NOT, "not"),
       Lexeme(IN_KW, "in")>>,
     <<Lexeme(RETURNING, "returning"), Lexeme(NOTHING, "nothing"),
       Lexeme(AS, "as"), Lexeme(OF, "of"), Lexeme(SYSTEM, "system")>>}

\* The calls of Lex with those that change the counters, the statement
\* and the error in between.
StreamNext ==
    \/ Lex
    \/ NewAnnotation
    \/ \E idx \in {1} : UpdateNumPlaceholders(idx)
    \/ \E s \in {"stmt1"} : SetStmt(s)
    \/ \E err \in {New("invalid value")} : setErr(err)

InitStream == \E lexs \in InputsStream : InitOn(lexs)
SpecStream == InitStream /\ [][StreamNext]_vars

InitLex ==
    \E lexs \in InputsIndex \cup InputsExamples \cup InputsNothing \cup InputsSet :
        InitOn(lexs)
SpecLex == InitLex /\ [][LexNext]_vars

InitIndex == \E lexs \in InputsIndex \cup InputsExamples : InitOn(lexs)
SpecIndex == InitIndex /\ [][LexNext]_vars

InitScan ==
    \E lexs \in InputsIndex \cup InputsExamples \cup InputsScan
                \cup InputsScanPunct :
        InitOn(lexs)
SpecScan == InitScan /\ [][LexNext]_vars

InitNothing == \E lexs \in InputsNothing : InitOn(lexs)
SpecNothing == InitNothing /\ [][LexNext]_vars

InitSet == \E lexs \in InputsSet : InitOn(lexs)
SpecSet == InitSet /\ [][LexNext]_vars

InitAs == \E lexs \in InputsAs : InitOn(lexs)
SpecAs == InitAs /\ [][LexNext]_vars

InitOnKw == \E lexs \in InputsOn : InitOn(lexs)
SpecOn == InitOnKw /\ [][LexNext]_vars

InitOneAhead == \E lexs \in InputsOneAhead : InitOn(lexs)
SpecOneAhead == InitOneAhead /\ [][LexNext]_vars

\* Triggers of every rule and the tokens their conditions name.
EdgeTokens ==
    {LxINDEX, Lexeme(NOTHING, "nothing"), Lexeme(AS, "as"), Lexeme(ON, "on"),
     Lexeme(SET, "set"), Lexeme(NOT, "not"), LxLParen, LxComma,
     Lexeme(RETURNING, "returning"), Lexeme(OF, "of"),
     Lexeme(UPDATE, "update"), Lexeme(TRACING, "tracing"),
     Lexeme(SESSION, "session"), Lexeme(IN_KW, "in"), LxIdent}

\* Every array of up to MaxEdge of these tokens, the empty array and the
\* arrays of one token among them, and the short arrays of the one-token
\* rules.
InputsEdge == SeqsUpTo(EdgeTokens, MaxEdge) \cup InputsOneAhead

InitEdge == \E lexs \in InputsEdge : InitOn(lexs)
SpecEdge == InitEdge /\ [][LexNext]_vars

InitRules ==
    \E lexs \in InputsIndex \cup InputsExamples \cup InputsNothing
                \cup InputsSet \cup InputsAs \cup InputsOn
                \cup InputsOneAhead :
        InitOn(lexs)
SpecRules == InitRules /\ [][LexNext]_vars

---------------------------------------------------------------------------
(* Properties.  They are stated over the token array and what Lex handed  *)
(* back, not over the operators above.                                    *)

\* The last Lex call returned a token of the array (not end of input).
Returned == lastPos >= 0 /\ lastPos < Len(tokens)

\* The scanner's id of the token the last Lex call returned.
CurId == tokens[lastPos + 1].id

\* Id and text of the token k places after (k < 0: before) the returned
\* one; -1 and "<none>" when the array has no such token.
NbrId(k) ==
    IF lastPos + k >= 0 /\ lastPos + k < Len(tokens)
    THEN tokens[lastPos + k + 1].id
    ELSE -1

NbrStr(k) ==
    IF lastPos + k >= 0 /\ lastPos + k < Len(tokens)
    THEN tokens[lastPos + k + 1].str
    ELSE "<none>"

\* The ids the rule table allows a token of the given id to be retagged to.
VariantsOf(id) ==
    CASE id = NOTHING -> {NOTHING_AFTER_RETURNING}
      [] id = INDEX -> {INDEX_BEFORE_PAREN, INDEX_BEFORE_NAME_THEN_PAREN,
                        INDEX_AFTER_ORDER_BY_BEFORE_AT}
      [] id = AS -> {AS_LA}
      [] id = NOT -> {NOT_LA}
      [] id = GENERATED -> {GENERATED_ALWAYS, GENERATED_BY_DEFAULT}
      [] id = WITH_KW -> {WITH_LA}
      [] id = NULLS -> {NULLS_LA}
      [] id = RESET -> {RESET_ALL}
      [] id = ROLE -> {ROLE_ALL}
      [] id = USER -> {USER_ALL}
      [] id = ON -> {ON_LA}
      [] id = TENANT -> {TENANT_ALL}
      [] id = CLUSTER -> {CLUSTER_ALL}
      [] id = SET -> {SET_TRACING}
      [] OTHER -> {}

\* C1: the k-th Lex call returns the token at index k-1 of the array (its
\* offset and text, its id or a variant of it), so every token is
\* delivered once and in order; every call past the end returns the
\* end-of-input token (id 0, offset len(in), text "EOF"), again and again.
C1_LexDeliversTokensInOrderThenEOF ==
    /\ Len(out) = lastPos + 1
    /\ \A k \in 1..Len(out) :
          IF k <= Len(tokens)
          THEN /\ out[k].pos = tokens[k].pos
               /\ out[k].str = tokens[k].str
               /\ out[k].id \in {tokens[k].id} \cup VariantsOf(tokens[k].id)
          ELSE out[k] = [id |-> 0, pos |-> Len(in), str |-> "EOF"]

\* C1 witness: an array of three tokens or more has been delivered with a
\* retagged token in it, and two end-of-input tokens have followed.
C1_Witness ==
    /\ Len(tokens) >= 3
    /\ Len(out) = Len(tokens) + 2
    /\ \E k \in 1..Len(tokens) : out[k].id # tokens[k].id
    /\ out[Len(tokens) + 1].id = 0
    /\ out[Len(tokens) + 2] = out[Len(tokens) + 1]

\* C2: a Lex call that returns a token of the array returns it with the
\* scanner's offset and text, retagged or not.
C2_RetagKeepsOffsetAndText ==
    Returned =>
        /\ lval.pos = tokens[lastPos + 1].pos
        /\ lval.str = tokens[lastPos + 1].str

\* C2 witness: a retagged token that does not stand at offset 0.
C2_Witness ==
    /\ Returned
    /\ lval.id # CurId
    /\ lval.pos > 0
    /\ lval.str # ""

\* The preceding condition of the INDEX_BEFORE_PAREN rule, as the rule
\* table states it.
PrecededForParen ==
    \/ NbrId(-1) \in {COMMA, LPAREN, OPTIONS}
    \/ (NbrId(-1) = INVERTED /\ NbrId(-2) \in {COMMA, LPAREN})

\* C3: INDEX is returned as INDEX_BEFORE_PAREN exactly when the next token
\* is '(' and the token before it is ',' or '(' or OPTIONS, or is INVERTED
\* preceded by ',' or '('.
C3_IndexBeforeParenIff ==
    (Returned /\ CurId = INDEX) =>
        ((lval.id = INDEX_BEFORE_PAREN)
            <=> (NbrId(1) = LPAREN /\ PrecededForParen))

\* C3 witness: INDEX after OPTIONS and before '(' was returned as
\* INDEX_BEFORE_PAREN.
C3_Witness ==
    /\ Returned
    /\ CurId = INDEX
    /\ NbrId(-1) = OPTIONS
    /\ NbrId(1) = LPAREN
    /\ lval.id = INDEX_BEFORE_PAREN

\* C4 as stated: INDEX is returned as INDEX_BEFORE_NAME_THEN_PAREN whenever
\* it meets the preceding condition of the before-paren rule (',' or '('
\* or OPTIONS before it, or INVERTED preceded by ',' or '(') and is
\* followed by a non-punctuation token and then '('.
C4_AsStated ==
    (Returned /\ CurId = INDEX /\ PrecededForParen
        /\ NbrId(1) > 255 /\ NbrId(2) = LPAREN)
    => lval.id = INDEX_BEFORE_NAME_THEN_PAREN

\* C4 amended: INDEX is returned as INDEX_BEFORE_NAME_THEN_PAREN whenever
\* the token before it is ',' or '(', or is INVERTED preceded by ',' or
\* '(', and it is followed by a non-punctuation token and then '('; OPTIONS
\* before it is not enough.
C4_IndexBeforeNameThenParen ==
    (Returned /\ CurId = INDEX
        /\ (\/ NbrId(-1) \in {COMMA, LPAREN}
            \/ (NbrId(-1) = INVERTED /\ NbrId(-2) \in {COMMA, LPAREN}))
        /\ NbrId(1) > 255 /\ NbrId(2) = LPAREN)
    => lval.id = INDEX_BEFORE_NAME_THEN_PAREN

\* C4 witness: `( INVERTED INDEX a (` returned INDEX as
\* INDEX_BEFORE_NAME_THEN_PAREN.
C4_Witness ==
    /\ Returned
    /\ CurId = INDEX
    /\ NbrId(-1) = INVERTED
    /\ NbrId(-2) = LPAREN
    /\ NbrId(1) = IDENT
    /\ NbrId(2) = LPAREN
    /\ lval.id = INDEX_BEFORE_NAME_THEN_PAREN

\* An '@' stands 2 to 6 places after the returned token, and every token
\* between the two is non-punctuation or '.'.
AtSignWithinWindow ==
    \E k \in 2..6 :
        /\ NbrId(k) = ATSIGN
        /\ \A j \in 1..(k - 1) : NbrId(j) > 255 \/ NbrId(j) = DOT

\* C5: an INDEX token that neither paren rule retagged is returned as
\* INDEX_AFTER_ORDER_BY_BEFORE_AT exactly when it is preceded by ',' or by
\* BY preceded by ORDER and an '@' follows at offset 2 to 6 with only
\* non-punctuation tokens and '.' before it; otherwise it stays INDEX.
C5_IndexAfterOrderByBeforeAtIff ==
    (Returned /\ CurId = INDEX
        /\ lval.id \notin {INDEX_BEFORE_PAREN, INDEX_BEFORE_NAME_THEN_PAREN})
    => /\ (lval.id = INDEX_AFTER_ORDER_BY_BEFORE_AT)
            <=> (/\ (\/ NbrId(-1) = COMMA
                     \/ (NbrId(-1) = BY_KW /\ NbrId(-2) = ORDER))
                 /\ AtSignWithinWindow)
       /\ lval.id \in {INDEX, INDEX_AFTER_ORDER_BY_BEFORE_AT}

\* C5 witness: ORDER BY INDEX with the '@' at offset 6 was retagged.
C5_Witness ==
    /\ Returned
    /\ CurId = INDEX
    /\ NbrId(-1) = BY_KW
    /\ NbrId(-2) = ORDER
    /\ NbrId(6) = ATSIGN
    /\ \A j \in 1..5 : NbrId(j) # ATSIGN
    /\ lval.id = INDEX_AFTER_ORDER_BY_BEFORE_AT

\* C6: in a column-definition list (INDEX after ',' or '(', or after
\* INVERTED or VECTOR that follows ',' or '('), INDEX directly followed by
\* '(' is returned as INDEX_BEFORE_PAREN and INDEX followed by a name and
\* then '(' as INDEX_BEFORE_NAME_THEN_PAREN, never as plain INDEX.
C6_ColumnListIndexIsRetagged ==
    (Returned /\ CurId = INDEX
        /\ (\/ NbrId(-1) \in {COMMA, LPAREN}
            \/ (NbrId(-1) \in {INVERTED, VECTOR}
                    /\ NbrId(-2) \in {COMMA, LPAREN})))
    => /\ (NbrId(1) = LPAREN => lval.id = INDEX_BEFORE_PAREN)
       /\ ((NbrId(1) > 255 /\ NbrId(2) = LPAREN)
              => lval.id = INDEX_BEFORE_NAME_THEN_PAREN)

\* C7: INDEX that is not followed by '(', nor by a non-punctuation token
\* and then '(', nor by a name pattern ending in '@' within the window, is
\* returned as plain INDEX whatever precedes it.
C7_PlainIndexIsKept ==
    (Returned /\ CurId = INDEX
        /\ NbrId(1) # LPAREN
        /\ ~(NbrId(1) > 255 /\ NbrId(2) = LPAREN)
        /\ ~AtSignWithinWindow)
    => lval.id = INDEX

\* C7 witness: the INDEX of CREATE TABLE t(index INT) was returned as INDEX.
C7_Witness ==
    /\ Returned
    /\ CurId = INDEX
    /\ NbrId(-3) = TABLE
    /\ NbrId(-1) = LPAREN
    /\ NbrId(1) = INT
    /\ NbrId(2) = RPAREN
    /\ lval.id = INDEX

\* C8: on the window of a returned INDEX token at most one of the three
\* rule conditions holds, and a token whose window satisfies a paren rule
\* is returned as that rule's variant.
C8_IndexRulesExclusive ==
    (Returned /\ CurId = INDEX) =>
        LET r1 == BeforeParenCond(tokens, lastPos)
            r2 == BeforeNameThenParenCond(tokens, lastPos)
            r3 == AfterOrderByBeforeAtCond(tokens, lastPos)
        IN  /\ ~(r1 /\ r2)
            /\ ~(r1 /\ r3)
            /\ ~(r2 /\ r3)
            /\ (r1 => lval.id = INDEX_BEFORE_PAREN)
            /\ (r2 => lval.id = INDEX_BEFORE_NAME_THEN_PAREN)
            /\ (r3 => lval.id = INDEX_AFTER_ORDER_BY_BEFORE_AT)

\* C8 witness: `, INDEX a ( @`: the second paren rule fired where an '@'
\* follows the '(' after a ','.
C8_Witness ==
    /\ Returned
    /\ CurId = INDEX
    /\ NbrId(-1) = COMMA
    /\ NbrId(1) = IDENT
    /\ NbrId(2) = LPAREN
    /\ NbrId(3) = ATSIGN
    /\ lval.id = INDEX_BEFORE_NAME_THEN_PAREN

\* C9: NOTHING is returned as NOTHING_AFTER_RETURNING exactly when the
\* token before it is RETURNING; otherwise (also as the first token) it is
\* returned unchanged.
C9_NothingAfterReturningIff ==
    (Returned /\ CurId = NOTHING) =>
        /\ (lval.id = NOTHING_AFTER_RETURNING) <=> (NbrId(-1) = RETURNING)
        /\ (NbrId(-1) # RETURNING => lval.id = NOTHING)

\* C9 witness: NOTHING right after RETURNING was retagged.
C9_Witness ==
    /\ Returned
    /\ CurId = NOTHING
    /\ NbrId(-1) = RETURNING
    /\ lval.id = NOTHING_AFTER_RETURNING

\* C10: SET is returned as SET_TRACING exactly when the next token is
\* TRACING and the text of the token after it is not ".", or the next is
\* SESSION, the second-next TRACING and the text of the third-next is not
\* "."; a missing token has no text "." (TRACING may end the input).
C10_SetTracingIff ==
    (Returned /\ CurId = SET) =>
        /\ (lval.id = SET_TRACING)
            <=> (\/ (NbrId(1) = TRACING /\ NbrStr(2) # ".")
                 \/ (NbrId(1) = SESSION /\ NbrId(2) = TRACING
                        /\ NbrStr(3) # "."))
        /\ lval.id \in {SET, SET_TRACING}

\* C10 witness: SET before a TRACING that ends the input was retagged.
C10_Witness ==
    /\ Returned
    /\ CurId = SET
    /\ NbrId(1) = TRACING
    /\ lastPos + 2 = Len(tokens)
    /\ lval.id = SET_TRACING

\* C11: AS is returned as AS_LA exactly when the next token is OF and the
\* second-next is SYSTEM; AS OF followed by anything else, or by the end
\* of the input, is returned as AS.
C11_AsLookaheadIff ==
    (Returned /\ CurId = AS) =>
        /\ (lval.id = AS_LA) <=> (NbrId(1) = OF /\ NbrId(2) = SYSTEM)
        /\ ((NbrId(1) = OF /\ NbrId(2) # SYSTEM) => lval.id = AS)
        /\ lval.id \in {AS, AS_LA}

\* C11 witness: AS OF SYSTEM TIME returned AS as AS_LA.
C11_Witness ==
    /\ Returned
    /\ CurId = AS
    /\ NbrId(1) = OF
    /\ NbrId(2) = SYSTEM
    /\ NbrId(3) = TIME
    /\ lval.id = AS_LA

\* C12: ON is returned as ON_LA exactly when the next token is DELETE, or
\* the next is UPDATE and the second-next is one of NO, RESTRICT, CASCADE,
\* SET; ON UPDATE followed by any other token is returned as ON.
C12_OnLookaheadIff ==
    (Returned /\ CurId = ON) =>
        /\ (lval.id = ON_LA)
            <=> (\/ NbrId(1) = DELETE
                 \/ (NbrId(1) = UPDATE
                        /\ NbrId(2) \in {NO, RESTRICT, CASCADE, SET}))
        /\ ((NbrId(1) = UPDATE /\ NbrId(2) \notin {NO, RESTRICT, CASCADE, SET})
               => lval.id = ON)
        /\ lval.id \in {ON, ON_LA}

\* C12 witness: ON UPDATE CASCADE returned ON as ON_LA.
C12_Witness ==
    /\ Returned
    /\ CurId = ON
    /\ NbrId(1) = UPDATE
    /\ NbrId(2) = CASCADE
    /\ lval.id = ON_LA

\* The id the one-token lookahead rules give a trigger of the given id
\* that stands before a token of id next, as the rule table states them.
OneAheadStated(id, next) ==
    CASE id = NOT ->
           IF next \in {BETWEEN, IN_KW, LIKE, ILIKE, SIMILAR}
           THEN NOT_LA ELSE NOT
      [] id = WITH_KW ->
           IF next \in {TIME, ORDINALITY, BUCKET_COUNT}
           THEN WITH_LA ELSE WITH_KW
      [] id = NULLS -> IF next \in {FIRST, LAST} THEN NULLS_LA ELSE NULLS
      [] id = GENERATED ->
           IF next = ALWAYS THEN GENERATED_ALWAYS
           ELSE IF next = BY_KW THEN GENERATED_BY_DEFAULT
           ELSE GENERATED
      [] id = RESET -> IF next = ALL THEN RESET_ALL ELSE RESET
      [] id = ROLE -> IF next = ALL THEN ROLE_ALL ELSE ROLE
      [] id = USER -> IF next = ALL THEN USER_ALL ELSE USER
      [] id = TENANT -> IF next = ALL THEN TENANT_ALL ELSE TENANT
      [] id = CLUSTER -> IF next = ALL THEN CLUSTER_ALL ELSE CLUSTER

\* C13: NOT, WITH, NULLS, GENERATED, RESET, ROLE, USER, TENANT and CLUSTER
\* are retagged exactly when the immediately following token is in the
\* rule's set (NOT: BETWEEN, IN, LIKE, ILIKE, SIMILAR; WITH: TIME,
\* ORDINALITY, BUCKET_COUNT; NULLS: FIRST, LAST; GENERATED: ALWAYS gives
\* GENERATED_ALWAYS and BY gives GENERATED_BY_DEFAULT; the others: ALL) and
\* are returned unchanged otherwise.
C13_OneTokenLookaheadIff ==
    (Returned /\ CurId \in {NOT, WITH_KW, NULLS, GENERATED, RESET, ROLE,
                            USER, TENANT, CLUSTER})
    => lval.id = OneAheadStated(CurId, NbrId(1))

\* C13 witness: GENERATED BY returned GENERATED as GENERATED_BY_DEFAULT.
C13_Witness ==
    /\ Returned
    /\ CurId = GENERATED
    /\ NbrId(1) = BY_KW
    /\ lval.id = GENERATED_BY_DEFAULT

\* The ids the rule table names as triggers.
TriggerIds ==
    {NOTHING, INDEX, NOT, WITH_KW, AS, GENERATED, NULLS, RESET, ROLE, USER,
     ON, TENANT, CLUSTER, SET}

\* Some row of the rule table for the returned token's id has its
\* condition met by the neighbours of the returned token.
SomeRuleConditionHolds ==
    CASE CurId = NOTHING -> NbrId(-1) = RETURNING
      [] CurId = INDEX ->
           \/ (PrecededForParen /\ NbrId(1) = LPAREN)
           \/ (PrecededForParen /\ NbrId(1) > 255 /\ NbrId(2) = LPAREN)
           \/ (/\ (\/ NbrId(-1) = COMMA
                   \/ (NbrId(-1) = BY_KW /\ NbrId(-2) = ORDER))
               /\ AtSignWithinWindow)
      [] CurId = AS -> NbrId(1) = OF /\ NbrId(2) = SYSTEM
      [] CurId = ON ->
           \/ NbrId(1) = DELETE
           \/ (NbrId(1) = UPDATE /\ NbrId(2) \in {NO, RESTRICT, CASCADE, SET})
      [] CurId = SET ->
           \/ (NbrId(1) = TRACING /\ NbrStr(2) # ".")
           \/ (NbrId(1) = SESSION /\ NbrId(2) = TRACING /\ NbrStr(3) # ".")
      [] CurId \in {NOT, WITH_KW, NULLS, GENERATED, RESET, ROLE, USER,
                    TENANT, CLUSTER} ->
           OneAheadStated(CurId, NbrId(1)) # CurId
      [] OTHER -> FALSE

\* C14: a token whose id is not a trigger id is returned with its id
\* unchanged whatever its neighbours are, and a trigger token for which no
\* rule condition holds is returned unchanged too.
C14_NoRuleNoRetag ==
    Returned =>
        /\ (CurId \notin TriggerIds => lval.id = CurId)
        /\ ((CurId \in TriggerIds /\ ~SomeRuleConditionHolds)
               => lval.id = CurId)

\* C14 witness: the UPDATE of ON UPDATE SET, with a trigger on either side,
\* was returned as UPDATE.
C14_Witness ==
    /\ Returned
    /\ CurId = UPDATE
    /\ NbrId(-1) = ON
    /\ NbrId(1) = SET
    /\ lval.id = UPDATE

\* The step starts the next parse on the lexer.
InitStep == \E lexs \in InputsReuse : init(lexs)

\* C15: between one init and the next the cursor never moves back: a step
\* in which Lex hands out a token moves it forward by exactly one, also
\* once the end of the array has been passed, and a step of any other
\* operation (lastToken, NewAnnotation, UpdateNumPlaceholders, SetStmt,
\* the error setters, SetHelp, cleanup) leaves it where it is.
C15_CursorOnlyAdvances ==
    [][/\ (out' = Append(out, lval') => lastPos' = lastPos + 1)
       /\ (lastPos' < lastPos => InitStep)
       /\ ((out' = out /\ lastPos' # lastPos) => InitStep)]_vars

\* C15 witness: the cursor stands past the end of the array after calls of
\* the registry and of cleanup (the array is gone, the source is not).
C15_Witness ==
    /\ tokens = <<>>
    /\ in = "set ??"
    /\ lastPos = 3
    /\ Len(out) = 4
    /\ numAnnotations = 2
    /\ numPlaceholders = 3

\* The largest element of a non-empty set of numbers.
MaxOf(S) == CHOOSE x \in S : \A y \in S : y <= x

\* C16: numPlaceholders is one plus the largest placeholder index recorded
\* since init, 0 when none was recorded, whatever other operations are
\* called in between; it never decreases before the next init, and the
\* indices 0 and 2 recorded in either order give 3.
C16_NumPlaceholdersIsMaxPlusOne ==
    /\ [](numPlaceholders = IF recorded = {} THEN 0 ELSE 1 + MaxOf(recorded))
    /\ [][numPlaceholders' < numPlaceholders => InitStep]_vars

\* C16 witness: indices 0 and 2 were recorded, between other calls, and
\* the count is 3.
C16_Witness ==
    /\ recorded = {0, 2}
    /\ numPlaceholders = 3
    /\ lastPos >= 0
    /\ lastError.k # "nil"

\* C17: numAnnotations is the number of NewAnnotation calls made since
\* init, the n-th call returns n, so each call returns more than the one
\* before, and no operation but NewAnnotation (and init) changes the
\* counter.
C17_NewAnnotationCounts ==
    /\ [](/\ numAnnotations = annCalls
          /\ (annCalls > 0 => annRet = annCalls))
    /\ [][/\ (annCalls' = annCalls + 1 => annRet' > annRet)
          /\ (numAnnotations' # numAnnotations
                 => (annCalls' = annCalls + 1 \/ InitStep))]_vars

\* C17 witness: the second NewAnnotation call of a parse returned 2, with
\* a token handed out and an error set in between.
C17_Witness ==
    /\ annCalls = 2
    /\ annRet = 2
    /\ numAnnotations = 2
    /\ lastPos >= 0
    /\ lastError.k # "nil"

\* C18: a step in which Lex hands out a token changes no field but the
\* cursor (token array, source, numPlaceholders, numAnnotations, stmt and
\* lastError stay), a step of NewAnnotation, UpdateNumPlaceholders or
\* SetStmt leaves the cursor and the token array alone, and so the tokens
\* handed out are those of the array by itself, whatever registry calls
\* come between the Lex calls.
C18_LexAndRegistryDoNotInteract ==
    /\ [][/\ (out' # out =>
                 /\ lastPos' = lastPos + 1
                 /\ UNCHANGED <<in, tokens, numPlaceholders, numAnnotations,
                                stmt, lastError>>)
          /\ ((\/ numAnnotations' # numAnnotations
               \/ numPlaceholders' # numPlaceholders
               \/ stmt' # stmt)
                 => UNCHANGED <<lastPos, tokens, in, lval, out>>)]_vars
    /\ [](/\ Len(out) = lastPos + 1
          /\ \A k \in 1..Len(out) : out[k] = LexToken(tokens, in, k - 1))

\* C18 witness: ON UPDATE SET TRACING was handed out as ON_LA, UPDATE,
\* SET_TRACING, TRACING with registry calls and an error in between.
C18_Witness ==
    /\ Len(out) = 4
    /\ out[1].id = ON_LA
    /\ out[2].id = UPDATE
    /\ out[3].id = SET_TRACING
    /\ out[4].id = TRACING
    /\ numAnnotations = 2
    /\ numPlaceholders = 3
    /\ stmt = "stmt2"
    /\ lastError.k # "nil"

\* Every text an error carries anywhere: messages, prefixes, details,
\* hints, telemetry keys, feature names, issue numbers, and the texts of
\* the errors kept next to it.
RECURSIVE TextsOf(_)
TextsOf(err) ==
    CASE err.k = "nil" -> {}
      [] err.k = "new" -> {err.msg}
      [] err.k = "unimp" -> {err.msg, err.feature, err.text, Itoa(err.issue)}
      [] err.k = "code" -> TextsOf(err.err)
      [] err.k = "wrap" -> {err.prefix} \cup TextsOf(err.err)
      [] err.k = "secondary" -> TextsOf(err.err) \cup TextsOf(err.secondary)
      [] err.k = "detail" -> {err.detail} \cup TextsOf(err.err)
      [] err.k = "hint" -> {err.hint} \cup TextsOf(err.err)
      [] err.k = "telemetry" -> {err.key} \cup TextsOf(err.err)
      [] err.k = "unsupported" -> {err.feature} \cup TextsOf(err.err)

\* A word of each argument the parser passes to an error-setting
\* operation, found in no other argument, source text or fixed text.
ArgWords ==
    {"invalid value", "duplicate", "unexpected", "malformed", "featX",
     "reasonY", "4703", "detailZ"}

\* The word occurs in some text of lastError.
InLastError(word) == \E t \in TextsOf(lastError) : Contains(t, word)

\* C19: the last write wins: while an error set by setErr,
\* setErrNoDetails, Error or an Unimplemented* operation is pending,
\* lastError carries the words of that call's arguments and no word of the
\* arguments of any earlier call.
C19_LastWriteWins ==
    errCall # "" =>
        /\ \A w \in ArgWords :
              InLastError(w) => \E a \in errArg : Contains(a, w)
        /\ \A a \in errArg :
              \E w \in ArgWords : Contains(a, w) /\ InLastError(w)

\* C19 witness: Error("malformed") was called while another error was
\* pending, and the diagnostic is the one of that call alone.
C19_Witness ==
    /\ errCall = "Error"
    /\ errArg = {"malformed"}
    /\ overwrote
    /\ errPos = 0
    /\ lastError =
           WithDetail(
               Wrap(Wrap(WithCandidateCode(New("malformed"), Syntax),
                         "syntax error"),
                    "at or near \"" \o tokens[1].str \o "\""),
               "source SQL:\n" \o in \o "\n^")

\* The operations that pass the error they set through
\* PopulateErrorDetails.
PopulatingCalls ==
    {"setErr", "Error", "PurposelyUnimplemented", "UnimplementedWithIssue",
     "UnimplementedWithIssueDetail", "Unimplemented"}

\* The diagnostic of a populating call is pending as that call left it.
Populated == errCall \in PopulatingCalls /\ HelpDepth(lastError) = 0

\* The token that was the last one returned when the pending error was
\* set: id, offset and text.
ErrTok ==
    IF errPos < 0 THEN [id |-> 0, pos |-> 0, str |-> ""]
    ELSE IF errPos >= Len(tokens)
         THEN [id |-> 0, pos |-> Len(in), str |-> "EOF"]
         ELSE tokens[errPos + 1]

\* s begins with prefix
BeginsWith(s, prefix) ==
    Len(s) >= Len(prefix) /\ SubSeq(s, 1, Len(prefix)) = prefix

\* s ends with suffix
EndsWith(s, suffix) ==
    Len(s) >= Len(suffix)
        /\ SubSeq(s, Len(s) - Len(suffix) + 1, Len(s)) = suffix

\* The message of the error the populating call handed to
\* PopulateErrorDetails.
PendingMsg ==
    CASE errCall = "setErr" -> CHOOSE m \in errArg : TRUE
      [] errCall = "Error" ->
           LET e == CHOOSE m \in errArg : TRUE
           IN  IF BeginsWith(e, "syntax error: ")
               THEN SubSeq(e, 15, Len(e))
               ELSE e
      [] OTHER -> "unimplemented: this syntax"

\* The pending message with "syntax error" put before it unless it
\* carries these words already.
WithSyntaxError(msg) ==
    IF \E i \in 1..(Len(msg) - 11) : SubSeq(msg, i, i + 11) = "syntax error"
    THEN msg
    ELSE "syntax error: " \o msg

\* The chain of causes of an error: the error and what it wraps.
RECURSIVE CausesOf(_)
CausesOf(err) ==
    IF err.k \in {"nil", "new", "unimp"} THEN {err}
    ELSE {err} \cup CausesOf(err.err)

\* The errors kept next to an error of the chain as secondary errors.
SecondariesOf(err) ==
    {c.secondary : c \in {d \in CausesOf(err) : d.k = "secondary"}}

\* C20 as stated: the diagnostic is lexical exactly when the last token is
\* ERROR; then its message is "lexical error: {text}" and the pending
\* error is its cause; otherwise its message is the pending message, with
\* "syntax error" before it unless it carries it, followed by
\* `at or near "{text}"`.
C20_AsStated ==
    Populated =>
        LET msg == ErrorMsg(lastError)
        IN  IF ErrTok.id = ERROR
            THEN /\ msg = "lexical error: " \o ErrTok.str
                 /\ \E c \in CausesOf(lastError) :
                        c.k \in {"new", "unimp"} /\ c.msg = PendingMsg
            ELSE /\ BeginsWith(msg, WithSyntaxError(PendingMsg))
                 /\ EndsWith(msg, "at or near \"" \o ErrTok.str \o "\"")

\* C20 amended: the diagnostic is lexical exactly when the last token is
\* ERROR; then its message is "lexical error: {text}" and the pending
\* error is kept next to it as a secondary error, outside its message and
\* its causes; otherwise its message is `at or near "{text}": ` followed
\* by the pending message, which has "syntax error: " put before it
\* unless it carries "syntax error" already.
C20_PopulateErrorDetailsFraming ==
    Populated =>
        LET msg == ErrorMsg(lastError)
        IN  /\ (ErrTok.id = ERROR) <=> BeginsWith(msg, "lexical error: ")
            /\ IF ErrTok.id = ERROR
               THEN /\ msg = "lexical error: " \o ErrTok.str
                    /\ \E c \in SecondariesOf(lastError) :
                           ErrorMsg(c) = PendingMsg
                    /\ \A c \in CausesOf(lastError) :
                           c.k \in {"new", "unimp"} => c.msg # PendingMsg
               ELSE msg = "at or near \"" \o ErrTok.str \o "\": "
                              \o WithSyntaxError(PendingMsg)

\* C20 witness: setErr was called with the scanner's ERROR token last
\* returned; the message is the lexical one and the error passed in is
\* kept as a secondary error.
C20_Witness ==
    /\ Populated
    /\ errCall = "setErr"
    /\ errArg = {"invalid value"}
    /\ ErrTok.id = ERROR
    /\ ErrorMsg(lastError) = "lexical error: unterminated string"
    /\ \E c \in SecondariesOf(lastError) : ErrorMsg(c) = "invalid value"

\* The character of src at offset i, counted from 0.
CharAt(src, i) == SubSeq(src, i + 1, i + 1)

\* The offset of the start of the line of src that contains offset p.
LineStartOf(src, p) ==
    CHOOSE j \in 0..p :
        /\ j = 0 \/ CharAt(src, j - 1) = "\n"
        /\ \A i \in j..(p - 1) : CharAt(src, i) # "\n"

\* The offset of the first newline of src at or after offset p, or the
\* length of src.
LineEndOf(src, p) ==
    CHOOSE e \in p..Len(src) :
        /\ e = Len(src) \/ CharAt(src, e) = "\n"
        /\ \A i \in p..(e - 1) : CharAt(src, i) # "\n"

\* A line of n spaces.
Indent(n) == SubSeq("                                        ", 1, n)

\* C21: the detail block of a diagnostic set at a token at offset p of the
\* source is the source from its start up to, not including, the first
\* newline at or after p (or the end of the text), then a line of p minus
\* the offset of the start of p's line spaces and a caret.
C21_DetailBlockShowsLineAndCaret ==
    errCall = "setErr" =>
        LET p == ErrTok.pos
        IN  /\ lastError.k = "detail"
            /\ lastError.detail =
                   "source SQL:\n" \o SubSeq(in, 1, LineEndOf(in, p)) \o "\n"
                       \o Indent(p - LineStartOf(in, p))
                       \o "^"

\* C21 witness: a token at line 2, column 5 of a two-line source: the
\* detail block shows both lines and 4 spaces before the caret.
C21_Witness ==
    /\ errCall = "setErr"
    /\ errPos = 0
    /\ in = "aa\naaaa"
    /\ tokens[1].pos = 7
    /\ lastError.detail = "source SQL:\naa\naaaa\n    ^"

\* The detail texts attached along the chain of causes of an error.
DetailsOf(err) == {c.detail : c \in {d \in CausesOf(err) : d.k = "detail"}}

\* The detail block for a token at offset p: the source up to the end of
\* p's line, then the caret line.
SourceDetailAt(p) ==
    "source SQL:\n" \o SubSeq(in, 1, LineEndOf(in, p)) \o "\n"
        \o Indent(p - LineStartOf(in, p)) \o "^"

\* The pending error carries the source line and the caret line of the
\* token that was last returned when it was set.
HasSourceDetail == SourceDetailAt(ErrTok.pos) \in DetailsOf(lastError)

\* C22 as stated: whenever lastError is set it includes the detail block
\* with the offending source line and the caret line, whichever operation
\* attached it.
C22_AsStated == lastError.k # "nil" => HasSourceDetail

\* C22: whenever lastError is set, it includes the detail block with the
\* offending source line and the caret line exactly when the operation
\* that last stored it is setErr, Error or one of the Unimplemented*
\* operations, with or without a later SetHelp; an error stored by
\* setErrNoDetails, or created by SetHelp when none was pending, has no
\* detail block.
C22_DetailBlockIffPopulatingCall ==
    lastError.k # "nil" =>
        /\ HasSourceDetail <=> errCall \in PopulatingCalls
        /\ errCall \notin PopulatingCalls => DetailsOf(lastError) = {}

\* C22 witness: setErrNoDetails replaced a pending diagnostic, SetHelp
\* followed, and the error has no detail block.
C22_Witness ==
    /\ errCall = "setErrNoDetails"
    /\ overwrote
    /\ errPos >= 0
    /\ HelpDepth(lastError) = 1
    /\ DetailsOf(lastError) = {}

\* C22 witness of the populating side: Error at the second token, then
\* SetHelp: the detail block is still part of the error.
C22_WitnessPopulated ==
    /\ errCall = "Error"
    /\ errPos = 1
    /\ HelpDepth(lastError) = 1
    /\ HasSourceDetail

\* C23 as stated: once Lex has been called, lastToken() yields the
\* identity, offset and text of the token most recently returned by Lex.
C23_AsStated == lastPos >= 0 => lastToken(tokens, in, lastPos) = lval

\* C23: once Lex has been called, lastToken() yields the offset and text
\* of the token most recently returned by Lex (the synthetic EOF token
\* past the end of the array) and the identity the scanner gave that
\* token, which is the identity Lex returned unless Lex retagged the
\* token; populateErrorDetails builds the diagnostic from exactly these
\* three values.
C23_LastTokenIsScannerToken ==
    lastPos >= 0 =>
        LET lastTok == lastToken(tokens, in, lastPos)
        IN  /\ lastTok.pos = lval.pos
            /\ lastTok.str = lval.str
            /\ lastTok.id = IF Returned THEN CurId ELSE 0
            /\ lastTok.id # lval.id =>
                   Returned /\ LexId(tokens, lastPos) # CurId
            /\ (Populated /\ errPos = lastPos) =>
                   /\ SourceDetailAt(lval.pos) \in DetailsOf(lastError)
                   /\ IF lastTok.id = ERROR
                      THEN ErrorMsg(lastError) = "lexical error: " \o lval.str
                      ELSE BeginsWith(ErrorMsg(lastError),
                                      "at or near \"" \o lval.str \o "\": ")
            /\ (Populated /\ errPos = lastPos
                    /\ errCall \in {"setErr", "Error"}) =>
                   lastError =
                       PopulateErrorDetails(
                           lastTok.id, lval.str, lval.pos,
                           WithCandidateCode(New(PendingMsg), Syntax), in)

\* C23 witness: Lex returned SET retagged as SET_TRACING, lastToken()
\* yields it with the identity SET, and setErr built its diagnostic from
\* it.
C23_Witness ==
    /\ lastPos = 0
    /\ lval.id = SET_TRACING
    /\ lastToken(tokens, in, lastPos) = [id |-> SET, pos |-> 0, str |-> "set"]
    /\ errCall = "setErr"
    /\ errPos = 0
    /\ ErrorMsg(lastError) = "at or near \"set\": syntax error: invalid value"

\* The error SetHelp works on: the pending one, or a new "help request".
HelpBase ==
    IF lastError.k = "nil"
    THEN [k |-> "code", err |-> New("help request"), code |-> "42601"]
    ELSE lastError

\* C24: a SetHelp call leaves the help payload (the pending error wrapped
\* with the prefix "help token in input", the help body attached as a
\* hint) exactly when the last token is HELPTOKEN; otherwise it only adds
\* a "try \h" hint to the pending error; either way an error that was
\* pending is kept inside the new one and lastError is not nil.
C24_SetHelpPayloadIffHelpToken ==
    [][HelpDepth(lastError') > HelpDepth(lastError) =>
          /\ lastError'.k = "hint"
          /\ IF lastToken(tokens, in, lastPos).id = HELPTOKEN
             THEN /\ lastError'.hint \in {"help for SELECT", "help for abs"}
                  /\ lastError'.err.k = "wrap"
                  /\ lastError'.err.prefix = "help token in input"
                  /\ lastError'.err.err = HelpBase
                  /\ ErrorMsg(lastError') =
                         "help token in input: " \o ErrorMsg(HelpBase)
             ELSE /\ lastError'.hint \in {"try \\h SELECT", "try \\hf abs"}
                  /\ lastError'.err = HelpBase
                  /\ ErrorMsg(lastError') = ErrorMsg(HelpBase)
                  /\ BeginsWith(ErrorMsg(lastError'), "help token in input")
                         => BeginsWith(ErrorMsg(HelpBase),
                                       "help token in input")
          /\ lastError.k # "nil" => lastError \in CausesOf(lastError')]_vars

\* C24 witness: SetHelp at the HELPTOKEN with a syntax error pending: the
\* payload wraps that error.
C24_Witness ==
    /\ lastPos = 1
    /\ lastToken(tokens, in, lastPos).id = HELPTOKEN
    /\ errCall = "Error"
    /\ errPos = 1
    /\ lastError.k = "hint"
    /\ lastError.hint = "help for SELECT"
    /\ ErrorMsg(lastError) =
           "help token in input: at or near \"??\": syntax error: unexpected"

\* C24 witness of the other side: SetHelp away from a HELPTOKEN with no
\* error pending: a "help request" error with the hint.
C24_WitnessHint ==
    /\ errCall = ""
    /\ lastError.k = "hint"
    /\ lastError.hint = "try \\hf abs"
    /\ ErrorMsg(lastError) = "help request"

\* The lexer's fields are those of a lexer that init has just set up on
\* the source text sql and the token array toks.
FreshOn(sql, toks) ==
    /\ in' = sql
    /\ tokens' = toks
    /\ lastPos' = -1
    /\ stmt' = "nil"
    /\ numPlaceholders' = 0
    /\ numAnnotations' = 0
    /\ lastError' = Nil

\* The stream a lexer set up on the token array at hand returns in its
\* first n calls of Lex.
FreshStream(n) == [i \in 1..n |-> LexToken(tokens, in, i - 1)]

\* C25: cleanup leaves the token array, the statement and lastError
\* cleared; init, after any operations of a previous attempt and with or
\* without a cleanup in between, leaves every field as on a fresh lexer
\* set up with the same arguments; and the tokens Lex returns afterwards
\* are those a fresh lexer returns.
C25_ReuseLeaksNoState ==
    /\ [][/\ (tokens' = <<>> /\ tokens # <<>>) =>
                 (stmt' = "nil" /\ lastError' = Nil)
          /\ (\/ in' # in
              \/ lastPos' < lastPos
              \/ tokens' # tokens /\ tokens' # <<>>) =>
                 \E lexs \in LaterInputs :
                     FreshOn(SourceOf(lexs), TokensOf(lexs))]_vars
    /\ [](tokens # <<>> =>
              /\ Len(out) = lastPos + 1
              /\ out = FreshStream(Len(out)))

\* C25 witness: a lexer set up again after a first parse has returned, as
\* a fresh one does, both tokens of the new statement and the end of
\* input, and its counters count from 0.
C25_Witness ==
    /\ in = "set ??"
    /\ lastPos = 2
    /\ out = <<[id |-> SET, pos |-> 0, str |-> "set"],
               [id |-> HELPTOKEN, pos |-> 4, str |-> "??"],
               [id |-> 0, pos |-> 6, str |-> "EOF"]>>
    /\ numPlaceholders = 1
    /\ numAnnotations = 1
    /\ stmt = "nil"
    /\ lastError = Nil

\* The number of tokens the array holds after the one at the cursor.
Ahead == Len(tokens) - 1 - lastPos

\* The array with zero tokens put where neighbours are missing: LookBehind
\* before the first token and MaxAhead after the last.
Padded ==
    [i \in 1..LookBehind |-> ZeroToken] \o tokens
        \o [i \in 1..MaxAhead |-> ZeroToken]

\* The identities Lex returns for a trigger whose rule looked at one
\* following token only.
OneAheadRetags ==
    {NOT_LA, WITH_LA, NULLS_LA, GENERATED_ALWAYS, GENERATED_BY_DEFAULT,
     RESET_ALL, ROLE_ALL, USER_ALL, TENANT_ALL, CLUSTER_ALL}

\* C26: for every token array, the empty one and those of one token
\* included, and every cursor position, Lex returns what it returns on the
\* array with identity-0 tokens in the place of the missing neighbours; a
\* rule that requires an identity at a position retags only when that
\* position exists; past the end Lex returns the end-of-input token; and
\* no error is raised.
C26_MissingNeighboursAreZero ==
    /\ lastError = Nil
    /\ (lastPos >= 0 /\ ~Returned) => lval = EOFToken(in)
    /\ Returned =>
           /\ lval.id = LexId(Padded, lastPos + LookBehind)
           /\ lval.id = NOTHING_AFTER_RETURNING => lastPos >= 1
           /\ lval.id = INDEX_BEFORE_PAREN => (lastPos >= 1 /\ Ahead >= 1)
           /\ (lval.id = INDEX_BEFORE_PAREN /\ NbrId(-1) = INVERTED) =>
                  lastPos >= 2
           /\ lval.id = INDEX_BEFORE_NAME_THEN_PAREN =>
                  (lastPos >= 1 /\ Ahead >= 2)
           /\ lval.id = INDEX_AFTER_ORDER_BY_BEFORE_AT =>
                  (lastPos >= 1 /\ Ahead >= 2)
           /\ lval.id = AS_LA => Ahead >= 2
           /\ lval.id \in OneAheadRetags => Ahead >= 1
           /\ lval.id = ON_LA =>
                  (Ahead >= 1 /\ (NbrId(1) = UPDATE => Ahead >= 2))
           /\ lval.id = SET_TRACING =>
                  (Ahead >= 1 /\ (NbrId(1) = SESSION => Ahead >= 2))
           /\ Len(tokens) = 1 => lval.id = CurId

\* C26 witness: ON UPDATE at the end of the array: the ON, whose rule
\* requires an identity at the missing second-next position, was returned
\* as ON; Lex went on to the end of input.
C26_Witness ==
    /\ Len(tokens) = 2
    /\ lastPos = 2
    /\ out = <<[id |-> ON, pos |-> 0, str |-> "on"],
               [id |-> UPDATE, pos |-> 3, str |-> "update"],
               [id |-> 0, pos |-> 9, str |-> "EOF"]>>
    /\ lastError = Nil

\* C26 witness on the array of one token: INDEX alone was returned as
\* INDEX.
C26_WitnessSingle ==
    /\ Len(tokens) = 1
    /\ lastPos = 0
    /\ CurId = INDEX
    /\ lval.id = INDEX

\* C26 witness on the empty array: the first call returned the end of
\* input.
C26_WitnessEmpty ==
    /\ tokens = <<>>
    /\ lastPos = 0
    /\ lval = [id |-> 0, pos |-> 0, str |-> "EOF"]

\* The operations that report an unsupported feature.
UnimplementedCalls ==
    {"PurposelyUnimplemented", "UnimplementedWithIssue",
     "UnimplementedWithIssueDetail", "Unimplemented"}

\* The feature identifier each of them is to leave, for the arguments the
\* calls are made with.
FeatureOf(call) ==
    CASE call = "PurposelyUnimplemented" -> "featX"
      [] call = "UnimplementedWithIssue" ->
           "https://github.com/cockroachdb/cockroach/issues/4703"
      [] call = "UnimplementedWithIssueDetail" -> "detailZ"
      [] OTHER -> "featX"

\* C27: each of PurposelyUnimplemented, Unimplemented,
\* UnimplementedWithIssue and UnimplementedWithIssueDetail leaves lastError
\* as an unsupported-feature error that carries the feature identifier and
\* wraps an error with the source-and-caret detail of the last token and
\* the message `at or near`, or `lexical error`, of that token, whether or
\* not an error was pending before the call.
C27_UnimplementedLeavesUnsupportedError ==
    (errCall \in UnimplementedCalls /\ HelpDepth(lastError) = 0) =>
        /\ lastError.k = "unsupported"
        /\ lastError.feature = FeatureOf(errCall)
        /\ lastError.err.k = "detail"
        /\ lastError.err.detail = SourceDetailAt(ErrTok.pos)
        /\ ErrorMsg(lastError) =
               IF ErrTok.id = ERROR
               THEN "lexical error: " \o ErrTok.str
               ELSE "at or near \"" \o ErrTok.str
                        \o "\": syntax error: unimplemented: this syntax"
        /\ ~InLastError("invalid value")
        /\ ~InLastError("malformed")

\* C27 witness: UnimplementedWithIssue at the second token with an error
\* pending: an unsupported-feature error with the issue's address, around
\* an error with the detail of that token.
C27_Witness ==
    /\ errCall = "UnimplementedWithIssue"
    /\ overwrote
    /\ errPos = 1
    /\ lastError.k = "unsupported"
    /\ lastError.feature =
           "https://github.com/cockroachdb/cockroach/issues/4703"
    /\ lastError.err.k = "detail"
    /\ lastError.err.detail = "source SQL:\nset tracing\n    ^"

\* The farthest following token a rule looks at: the '@' scan stops
\* before index lastPos+7.
WindowAhead == 6

\* The scanner's tokens around index p, from LookBehind before it to
\* WindowAhead after it, with zero tokens where the array has none.
WindowAt(p) ==
    [i \in 1..(LookBehind + 1 + WindowAhead) |->
        IF p - LookBehind + i - 1 >= 0 /\ p - LookBehind + i - 1 < Len(tokens)
        THEN tokens[p - LookBehind + i]
        ELSE ZeroToken]

\* The array with every token but the one at index p given the identity
\* Lex returns for it.
NeighboursAsReturned(p) ==
    [i \in 1..Len(tokens) |->
        IF i = p + 1 THEN tokens[i] ELSE LexToken(tokens, in, i - 1)]

\* C28: every identity Lex has returned is the one the rules give on the
\* scanner's tokens of the window around that position alone, whatever
\* was returned before and whatever the counters, the statement and the
\* error were when it was returned; in particular an ON followed by
\* UPDATE and the scanner's SET is returned as ON_LA; so the stream is the
\* one any lexer returns on this array.
C28_RetagIsFunctionOfScannerWindow ==
    /\ Len(out) = lastPos + 1
    /\ \A k \in 1..Len(out) :
           /\ out[k] = LexToken(tokens, in, k - 1)
           /\ k <= Len(tokens) =>
                  /\ out[k].id = LexId(WindowAt(k - 1), LookBehind)
                  /\ out[k].pos = tokens[k].pos
                  /\ out[k].str = tokens[k].str
                  /\ (/\ tokens[k].id = ON
                      /\ k + 2 <= Len(tokens)
                      /\ tokens[k + 1].id = UPDATE
                      /\ tokens[k + 2].id = SET) => out[k].id = ON_LA

\* C28 witness: ON UPDATE SET TRACING returned as ON_LA, UPDATE,
\* SET_TRACING, TRACING with the counters, the statement and the error
\* changed on the way; with its neighbours as returned, the rules would
\* have left the ON as it was.
C28_Witness ==
    /\ Len(tokens) = 4
    /\ Len(out) = 4
    /\ out[1].id = ON_LA
    /\ out[3].id = SET_TRACING
    /\ LexId(NeighboursAsReturned(0), 0) = ON
    /\ numAnnotations = 2
    /\ numPlaceholders = 2
    /\ stmt = "stmt1"
    /\ lastError.k # "nil"

====
